---- MODULE Spec2Model ----
(***************************************************************************)
(* A model of makfy's execution engine: the promise concurrency limiter    *)
(* (utils/promise.ts), and the exec scheduler with its shell steps         *)
(* (lib/execRuntime.ts, utils/shellescape.ts).                             *)
(*                                                                         *)
(* Text (paths, file contents, environment values) is a sequence of        *)
(* one-character strings, so that trimming, splitting and escaping are     *)
(* computed as the code computes them.                                     *)
(***************************************************************************)
EXTENDS Integers, Sequences, FiniteSets, TLC

VARIABLES
  \* ---- the limiter returned by limitPromiseConcurrency(concurrency) ----
  limState,     \* "none" | "ready" | "threw": the outcome of limitPromiseConcurrency
  concurrency,  \* the argument of limitPromiseConcurrency
  activeCount,  \* promise.ts: let activeCount
  queue,        \* promise.ts: const queue (unit ids standing for their run closures)
  units,        \* the units handed to the limiter, by submission number
  startOrder,   \* the order in which run() was entered (history)
  \* ---- one run of the scheduler (execRuntime.ts) ----
  platform,     \* process.platform and process.env.SHELL, fixed for the run
  ambient,      \* process.env, fixed for the run
  prog,         \* the run routine of the command that is run
  tasks,        \* the pending and settled async calls: routines, exec calls, fan-outs
  ctxs,         \* the ExecContext objects
  stack,        \* the call stack: the async calls that are running synchronously
  mq,           \* the microtask queue: the promise reactions that are due
  \* ---- the change-detection cache (hash.ts, getFileChangesAsync) ----
  tree,         \* the files of the working directory: path -> content
  cache,        \* the files of the .makfy-cache folder: file name -> file
  run,          \* the top-level run in progress and its getFileChangesAsync calls
  \* ---- the output of the shell steps (OutputBuffer.ts, execCommandStringAsync) ----
  procs,        \* the shell steps: child process, promise, output buffer, flush timer
  sockets       \* what has been written to process.stdout and process.stderr

limVars == <<limState, concurrency, activeCount, queue, units, startOrder>>

schedVars == <<platform, ambient, prog, tasks, ctxs, stack, mq>>

cacheVars == <<tree, cache, run>>

outVars == <<procs, sockets>>

vars == <<limState, concurrency, activeCount, queue, units, startOrder,
          platform, ambient, prog, tasks, ctxs, stack, mq,
          tree, cache, run, procs, sockets>>

----------------------------------------------------------------------------
(***************************************************************************)
(* Bounds                                                                  *)
(***************************************************************************)
MaxUnits == 4
MaxConcurrency == 2

----------------------------------------------------------------------------
(***************************************************************************)
(* The limiter: src/unnamed/part_002 (utils/promise.ts)                    *)
(***************************************************************************)
UnitIds == 1..MaxUnits

\* The values and errors a wrapped promise settles with.
Outcomes == {"val1", "val2", "err1", "err2"}
IsError(o) == o \in {"err1", "err2"}

\* A unit: where it is in the limiter (st), how its own promise settled (inner),
\* how the promise the limiter returned for it settled (outer), and the place it
\* took in the queue when it had to wait (qpos, 0 when it was started at once).
NewUnit == [st |-> "none", inner |-> "pending", outer |-> "pending", qpos |-> 0]

\* const run = () => { activeCount++; wrappedPromise().then(...) }
Run_NoCount(lim, u) ==
  [lim EXCEPT !.units[u].st = "running", !.startOrder = Append(@, u)]

Run(lim, u) ==
  [lim EXCEPT !.activeCount = @ + 1,
              !.units[u].st = "running",
              !.startOrder = Append(@, u)]

\* if (activeCount < concurrency) { run(); } else { queue.push(run); }
Admit(lim, u) ==
  IF lim.activeCount < lim.concurrency
    THEN Run(lim, u)
    ELSE [lim EXCEPT !.queue = Append(@, u),
                     !.units[u].st = "queued",
                     !.units[u].qpos = Len(lim.queue) + 1]

\* const next = () => { activeCount--; if (queue.length > 0) { queue.shift()() } }
Next_Lifo(lim) ==
  LET l1 == [lim EXCEPT !.activeCount = @ - 1] IN
  IF Len(l1.queue) > 0
    THEN Run([l1 EXCEPT !.queue = SubSeq(@, 1, Len(@) - 1)], l1.queue[Len(l1.queue)])
    ELSE l1

Next_NoDequeue(lim) == [lim EXCEPT !.activeCount = @ - 1]

LimNext(lim) ==
  LET l1 == [lim EXCEPT !.activeCount = @ - 1] IN
  IF Len(l1.queue) > 0
    THEN Run([l1 EXCEPT !.queue = Tail(@)], Head(l1.queue))
    ELSE l1

\* The limiter's variables as one record, and back.
Lim == [concurrency |-> concurrency, activeCount |-> activeCount, queue |-> queue,
        units |-> units, startOrder |-> startOrder]

SetLim(lim) ==
  /\ activeCount' = lim.activeCount
  /\ queue' = lim.queue
  /\ units' = lim.units
  /\ startOrder' = lim.startOrder
  /\ UNCHANGED <<limState, concurrency>>
  /\ UNCHANGED schedVars
  /\ UNCHANGED <<cacheVars, outVars>>

\* No scheduler run is in progress.
SchedIdle ==
  /\ platform = [win32 |-> FALSE, shellEnv |-> TRUE]
  /\ ambient = <<>>
  /\ prog = <<>>
  /\ tasks = <<>>
  /\ ctxs = <<>>
  /\ stack = <<>>
  /\ mq = <<>>

\* No limiter has been created.
LimIdle ==
  /\ limState = "none"
  /\ concurrency = 0
  /\ activeCount = 0
  /\ queue = <<>>
  /\ units = [u \in UnitIds |-> NewUnit]
  /\ startOrder = <<>>

\* No getFileChangesAsync call is made: no tree, no cache folder, no run.
CacheIdle ==
  /\ tree = <<>>
  /\ cache = <<>>
  /\ run = <<>>

\* No shell step writes output.
OutIdle ==
  /\ procs = <<>>
  /\ sockets = <<>>

InitLimiter ==
  /\ limState = "none"
  /\ concurrency = 0
  /\ activeCount = 0
  /\ queue = <<>>
  /\ units = [u \in UnitIds |-> NewUnit]
  /\ startOrder = <<>>
  /\ SchedIdle
  /\ CacheIdle
  /\ OutIdle

\* limitPromiseConcurrency(n): throws when n < 1
Create(n) ==
  /\ limState = "none"
  /\ concurrency' = n
  /\ limState' = IF n < 1 THEN "threw" ELSE "ready"
  /\ UNCHANGED <<activeCount, queue, units, startOrder>>
  /\ UNCHANGED schedVars
  /\ UNCHANGED <<cacheVars, outVars>>

\* limit(fn): the units are numbered in the order of their submission
Submit(u) ==
  /\ limState = "ready"
  /\ units[u].st = "none"
  /\ \A v \in UnitIds : v < u => units[v].st # "none"
  /\ SetLim(Admit(Lim, u))

\* the promise returned by wrappedPromise() settles (the unit's own work)
UnitSettles(u, o) ==
  /\ units[u].st = "running"
  /\ units[u].inner = "pending"
  /\ units' = [units EXCEPT ![u].inner = o]
  /\ UNCHANGED <<limState, concurrency, activeCount, queue, startOrder>>
  /\ UNCHANGED schedVars
  /\ UNCHANGED <<cacheVars, outVars>>

\* the then-callbacks: resolve(val) or reject(err), then next()
OnSettled_KeepSlotOnError(u) ==
  /\ units[u].st = "running"
  /\ units[u].inner # "pending"
  /\ LET l1 == [Lim EXCEPT !.units[u].st = "done", !.units[u].outer = units[u].inner]
     IN SetLim(IF IsError(units[u].inner) THEN l1 ELSE LimNext(l1))

OnSettled(u) ==
  /\ units[u].st = "running"
  /\ units[u].inner # "pending"
  /\ SetLim(LimNext([Lim EXCEPT !.units[u].st = "done",
                                !.units[u].outer = units[u].inner]))

NextLimiter ==
  \/ \E n \in 0..MaxConcurrency : Create(n)
  \/ \E u \in UnitIds : Submit(u)
  \/ \E u \in UnitIds, o \in Outcomes : UnitSettles(u, o)
  \/ \E u \in UnitIds : OnSettled(u)

SpecLimiter == InitLimiter /\ [][NextLimiter]_vars

\* Every started unit's promise eventually settles (the hypothesis of the
\* liveness claim) and a settled promise's callbacks are run (the microtask queue).
SpecLimiterFair ==
  /\ SpecLimiter
  /\ \A u \in UnitIds : WF_vars(\E o \in Outcomes : UnitSettles(u, o))
  /\ \A u \in UnitIds : WF_vars(OnSettled(u))

----------------------------------------------------------------------------
(***************************************************************************)
(* Text helpers: JavaScript string operations on sequences of characters   *)
(***************************************************************************)
\* String.prototype.trim removes white space and line terminators at both ends
WhiteSpace == {" ", "\t", "\n", "\r"}

RECURSIVE TrimStart(_)
TrimStart(s) ==
  IF s # <<>> /\ Head(s) \in WhiteSpace THEN TrimStart(Tail(s)) ELSE s

RECURSIVE TrimEnd(_)
TrimEnd(s) ==
  IF s # <<>> /\ s[Len(s)] \in WhiteSpace THEN TrimEnd(SubSeq(s, 1, Len(s) - 1)) ELSE s

Trim(s) == TrimEnd(TrimStart(s))

\* s.replace(/[chars]/g, "")
RemoveChars(s, chars) == SelectSeq(s, LAMBDA c : c \notin chars)

\* s.split(old).join(new), old and new a single character each
ReplaceChar(s, old, new) == [k \in 1..Len(s) |-> IF s[k] = old THEN new ELSE s[k]]

\* s.startsWith(p)
StartsWith(s, p) == Len(s) >= Len(p) /\ SubSeq(s, 1, Len(p)) = p

\* s.substr(n)
Substr(s, n) == SubSeq(s, n + 1, Len(s))

\* the index of the first occurrence of character c in s, 0 when there is none
RECURSIVE IndexOfFrom(_, _, _)
IndexOfFrom(s, c, k) ==
  IF k > Len(s) THEN 0 ELSE IF s[k] = c THEN k ELSE IndexOfFrom(s, c, k + 1)

IndexOf(s, c) == IndexOfFrom(s, c, 1)

\* s.split(c): the pieces of s between the occurrences of character c
RECURSIVE Split(_, _)
Split(s, c) ==
  LET k == IndexOf(s, c) IN
  IF k = 0 THEN <<s>> ELSE <<SubSeq(s, 1, k - 1)>> \o Split(Substr(s, k), c)

\* s.replace(/pp/g, "") for a two-character pattern pp: left to right, not overlapping
RECURSIVE RemovePairs(_, _)
RemovePairs(s, c) ==
  IF Len(s) < 2 THEN s
  ELSE IF s[1] = c /\ s[2] = c THEN RemovePairs(Substr(s, 2), c)
  ELSE <<s[1]>> \o RemovePairs(Tail(s), c)

\* s.replace(/c/g, by)
RECURSIVE ReplaceCharBy(_, _, _)
ReplaceCharBy(s, c, by) ==
  IF s = <<>> THEN <<>>
  ELSE (IF Head(s) = c THEN by ELSE <<Head(s)>>) \o ReplaceCharBy(Tail(s), c, by)

RECURSIVE Concat(_)
Concat(ss) == IF ss = <<>> THEN <<>> ELSE Head(ss) \o Concat(Tail(ss))

----------------------------------------------------------------------------
(***************************************************************************)
(* The shell adapter: utils/shellescape.ts and the probes of execRuntime.ts *)
(***************************************************************************)
\* The platforms: process.platform === "win32", and whether process.env.SHELL is set
Platforms == { [win32 |-> FALSE, shellEnv |-> TRUE], [win32 |-> TRUE, shellEnv |-> FALSE] }

\* getShellType
GetShellType(pf) == IF ~pf.shellEnv /\ pf.win32 THEN "cmd" ELSE "sh"

\* getPathEnvName
GetPathEnvName(pf) == IF GetShellType(pf) = "sh" THEN <<"P", "A", "T", "H">> ELSE <<"P", "a", "t", "h">>

\* path.delimiter
GetPathDelimiter(pf) == IF pf.win32 THEN ";" ELSE ":"

\* the characters of /^[A-Za-z0-9_\/-]+$/ that the model's texts use
SafeChars == {"a", "b", "w", "n", "m", "C", "_", "/", "-", "0", "1", "2"}

IsSafeWord(s) == s # <<>> /\ \A k \in 1..Len(s) : s[k] \in SafeChars

\* _escapeShellSh
EscapeShellSh(s) ==
  IF ~IsSafeWord(s)
    THEN RemovePairs(<<"'">> \o ReplaceCharBy(s, "'", <<"'", "\"", "'", "\"", "'">>) \o <<"'">>, "'")
    ELSE s

\* _escapeShellCmd
EscapeShellCmd(s) ==
  IF ~IsSafeWord(s)
    THEN <<"\"">> \o ReplaceCharBy(s, "\"", <<"\"", "\"">>) \o <<"\"">>
    ELSE s

\* escapeShell, for a single string
EscapeShell(shell, s) == IF shell = "cmd" THEN EscapeShellCmd(s) ELSE EscapeShellSh(s)

\* fixPath; "throws" stands for the Error thrown for a path that cannot be fixed
FixPath(pf, shell, path) ==
  LET oldSep == IF shell = "sh" THEN "\\" ELSE "/"
      newSep == IF shell = "sh" THEN "/" ELSE "\\"
      p1 == ReplaceChar(Trim(path), oldSep, newSep)
  IN IF pf.win32 /\ shell = "sh" /\ IndexOf(p1, ":") # 0
       THEN IF Len(p1) < 3 \/ p1[2] # ":" \/ p1[3] # "/"
              THEN <<"throws">>
              ELSE <<"/", p1[1]>> \o Substr(p1, 2)
       ELSE p1

\* How the shell reads back one escaped word of its command line: sh removes
\* single and double quotes around the quoted parts, cmd removes double quotes.
RECURSIVE ShWord(_, _)
ShWord(s, q) ==
  IF s = <<>> THEN <<>>
  ELSE IF q = "" /\ Head(s) \in {"'", "\""} THEN ShWord(Tail(s), Head(s))
  ELSE IF q # "" /\ Head(s) = q THEN ShWord(Tail(s), "")
  ELSE <<Head(s)>> \o ShWord(Tail(s), q)

ShellWord(shell, s) == IF shell = "cmd" THEN RemoveChars(s, {"\""}) ELSE ShWord(s, "")

----------------------------------------------------------------------------
(***************************************************************************)
(* Properties of the limiter                                               *)
(***************************************************************************)
Running == {u \in UnitIds : units[u].st = "running"}
QueuedStarts == SelectSeq(startOrder, LAMBDA u : units[u].qpos > 0)

\* C8: for a limiter created with n >= 1, the number of units that were
\* started and whose promise has not yet settled never exceeds n.
LimiterBound ==
  limState = "ready" => Cardinality(Running) <= concurrency

\* C8 witness: more units were submitted than the limit, all n slots are busy
\* and a unit waits in the queue.
LimiterBoundWitness ==
  /\ limState = "ready"
  /\ Cardinality(Running) = concurrency
  /\ Len(queue) > 0

\* C9: when the promise of every started unit eventually settles, every unit
\* submitted to the limiter is eventually started and the promise returned for
\* it eventually settles, whether earlier units succeeded or failed.
LimiterLiveness ==
  \A u \in UnitIds :
    (units[u].st # "none") ~> (units[u].st = "done" /\ units[u].outer # "pending")

\* C9 witness: a unit that had to wait in the queue has settled although a unit
\* submitted before it failed.
LimiterLivenessWitness ==
  \E u, v \in UnitIds :
    /\ v < u
    /\ units[u].qpos > 0
    /\ units[u].st = "done"
    /\ IsError(units[v].outer)

\* C10: the units that were queued are started in the order of their submission.
LimiterFifo ==
  \A i, j \in 1..Len(QueuedStarts) : i < j => QueuedStarts[i] < QueuedStarts[j]

\* C10 witness: a unit that was queued behind another waiting unit has been
\* started, after the unit it waited behind.
LimiterFifoWitness ==
  \E i, j \in 1..Len(QueuedStarts) :
    /\ i < j
    /\ units[QueuedStarts[j]].qpos >= 2
    /\ units[QueuedStarts[i]].qpos >= 1

\* C11: the promise the limiter returns for a unit settles exactly as the
\* unit's own promise settled (same value or same error) and only once that
\* has settled; whatever the outcome of the other units, a settled unit holds
\* no slot: the slots counted are those of the units still running, and a unit
\* waits in the queue only while all the slots are taken by running units.
LimiterTransparent ==
  limState = "ready" =>
    /\ \A u \in UnitIds :
         /\ units[u].outer # "pending" => units[u].outer = units[u].inner
         /\ units[u].st = "done" <=> units[u].outer # "pending"
    /\ activeCount = Cardinality(Running)
    /\ Len(queue) > 0 => Cardinality(Running) = concurrency

\* C11 witness: with one slot, the first unit has failed with its own error,
\* and the unit that waited behind it was started and has resolved with its
\* own value.
LimiterTransparentWitness ==
  /\ concurrency = 1
  /\ units[1].outer = "err1"
  /\ units[2].qpos = 1
  /\ units[2].outer = "val2"
  /\ units[3].st = "running"

----------------------------------------------------------------------------
(***************************************************************************)
(* Environments, and the capture of a step's working directory and         *)
(* environment (execRuntime.ts, execCommandStringAsync)                    *)
(***************************************************************************)
\* An environment maps names to values; {...a, ...b} lets b win.
NoEnv == [n \in {} |-> <<>>]

Merge(a, b) ==
  [n \in (DOMAIN a) \cup (DOMAIN b) |-> IF n \in DOMAIN b THEN b[n] ELSE a[n]]

Without(a, n) == [m \in (DOMAIN a) \ {n} |-> a[m]]

\* the variable names of the model, in the order in which printenv lists them
VarF == <<"F">>
VarH == <<"H">>
VarNames == << <<"P", "A", "T", "H">>, <<"P", "a", "t", "h">>, VarF, VarH >>

\* the line end of the files the shell writes
LineEnd(shell) == IF shell = "cmd" THEN <<"\r", "\n">> ELSE <<"\n">>

\* `pwd > file` (sh), `cd > file` (cmd): the directory and a line end
CwdFile(shell, dir) == dir \o LineEnd(shell)

\* `printenv > file` (sh), `set > file` (cmd): one NAME=VALUE line per variable
EnvFile(shell, env) ==
  Concat([k \in 1..Len(VarNames) |->
            IF VarNames[k] \in DOMAIN env
              THEN VarNames[k] \o <<"=">> \o env[VarNames[k]] \o LineEnd(shell)
              ELSE <<>>])

\* context.cwd = readFileSync(cwdTmpFilename).replace(/\r?\n|\r/g, "").trim()
ReadCwd(content) == Trim(RemoveChars(content, {"\r", "\n"}))

\* const pieces = envLine.split("="); const name = pieces[0];
EnvLineName(line) == Split(line, "=")[1]

\* newEnv[name] = envLine.substr(name.length + 1)
EnvLineValue(line) == Substr(line, Len(EnvLineName(line)) + 1)

\* readFileSync(envTmpFilename).replace(/\r/g, "").trim().split("\n").forEach(...)
ReadEnv(content) ==
  LET lines == Split(Trim(RemoveChars(content, {"\r"})), "\n")
      used == {k \in 1..Len(lines) : Len(Trim(lines[k])) > 0}
      last(n) == CHOOSE k \in used :
                   /\ EnvLineName(lines[k]) = n
                   /\ \A j \in used : EnvLineName(lines[j]) = n => j <= k
  IN [n \in {EnvLineName(lines[k]) : k \in used} |-> EnvLineValue(lines[last(n)])]

\* path.resolve("node_modules/.bin") + path.delimiter
NodeBinPath(pf) == <<"/", "n", "m", GetPathDelimiter(pf)>>

\* let currentPath = process.env[pathEnvName] || ""; prefixed with nodeBinPath if needed
CurrentPath(pf, processEnv) ==
  LET name == GetPathEnvName(pf)
      cur == IF name \in DOMAIN processEnv THEN processEnv[name] ELSE <<>>
  IN IF ~StartsWith(cur, NodeBinPath(pf)) THEN NodeBinPath(pf) \o cur ELSE cur

\* const env = { ...process.env, ...context.env, [pathEnvName]: currentPath }
SpawnEnv(pf, processEnv, contextEnv) ==
  Merge(Merge(processEnv, contextEnv), GetPathEnvName(pf) :> CurrentPath(pf, processEnv))

\* process.cwd(), the directory of a step when its context has no cwd yet
ProcessCwd(pf) == IF pf.win32 THEN <<"C", ":", "\\", "w">> ELSE <<"/", "w">>

\* if (context.cwd) finalCommand = `cd ${escapeForShell(fixPath(context.cwd))} && ...`:
\* the directory in which the shell then runs the command
RunDir(pf, cwd) ==
  IF cwd # <<>>
    THEN ShellWord(GetShellType(pf), EscapeShell(GetShellType(pf), FixPath(pf, GetShellType(pf), cwd)))
    ELSE ProcessCwd(pf)

\* The directories a step can end in, and the process environments of a run.
Dirs(pf) ==
  IF pf.win32
    THEN { <<"C", ":", "\\", "a">>, <<"C", ":", "\\", "a", " ", "b">> }
    ELSE { <<"/", "a">>, <<"/", "a", " ", "b">>, <<"/", "a", "\\", "b">>, <<"/", "a", " ">> }

AmbientEnvs(pf) ==
  { (GetPathEnvName(pf) :> <<"/", "b">>) @@ (VarH :> <<"h">>),
    (GetPathEnvName(pf) :> (NodeBinPath(pf) \o <<"/", "b">>)) @@ (VarH :> <<"h">>) }

----------------------------------------------------------------------------
(***************************************************************************)
(* Command specifications, and the commands of the run                     *)
(***************************************************************************)
\* An ExecCommand: a string, an object { _: name, args }, an array, null,
\* or a value of another type.
Str(text) == [ty |-> "string", text |-> text, items |-> <<>>, args |-> {}]
Arr(items) == [ty |-> "array", text |-> <<>>, items |-> items, args |-> {}]
Obj(name, args) == [ty |-> "object", text |-> name, items |-> <<>>, args |-> args]
Null == [ty |-> "null", text |-> <<>>, items |-> <<>>, args |-> {}]
Num == [ty |-> "number", text |-> <<>>, items |-> <<>>, args |-> {}]

\* a name that Object.prototype also defines, and the properties every plain
\* object inherits from Object.prototype
PathCtor == <<"c", "o", "n", "s", "t", "r", "u", "c", "t", "o", "r">>

ObjectPrototypeNames == {PathCtor}

\* if (obj[key]) for a plain object whose values are objects: an own property
\* or an inherited one (execRuntime.ts:110-111 argDefs[key], 443-445
\* context.commands[cmdName], context.parsedCommands[cmdName])
HasProperty(own, key) == key \in own \/ key \in ObjectPrototypeNames

\* The shell commands of the model, by what they do to the shell's state:
\* c: cd to some directory, e: export a variable, u: unset H, p: neither.
ShCd == Str(<<"c">>)
ShExport == Str(<<"e">>)
ShUnset == Str(<<"u">>)
ShPwd == Str(<<"p">>)

\* The calls of a run routine: exec(...nodes), or keepContext(...nodes) on the
\* object that the call before it returned.
CallExec(nodes) == [k |-> "exec", nodes |-> nodes]
CallKeep(nodes) == [k |-> "keep", nodes |-> nodes]

\* the keepContext of the call before it, called once for each list without
\* awaiting in between:
\*   await Promise.all(lists.map((l) => last.keepContext(...l)))
CallKeepAll(lists) == [k |-> "keepAll", nodes |-> lists]

\* the commands that a sub-command reference can name: args and run routine
SubName == <<"s">>
SubList == <<"l">>
Registry ==
  (SubName :> [argNames |-> {<<"v">>}, script |-> <<CallExec(<<ShCd, ShPwd>>)>>])
  @@ (SubList :> [argNames |-> {}, script |-> <<CallExec(<<Arr(<<ShPwd, ShPwd>>)>>)>>])

\* the run routines of the command that is run
\* limitPromiseConcurrency(32) in execArrayAsync
FanOutLimit == 32

\* a list with more elements than the fan-out runs at once: two shell steps,
\* then elements that are skipped
WideList ==
  Arr([k \in 1..(FanOutLimit + 2) |-> IF k <= 2 THEN ShPwd ELSE Null])

Programs ==
  { <<CallExec(<<ShCd, ShExport, ShPwd>>)>>,
    <<CallExec(<<ShPwd, Arr(<<ShCd, ShExport>>), ShPwd>>)>>,
    <<CallExec(<<Arr(<<ShCd, Arr(<<ShCd, ShPwd>>)>>)>>)>>,
    <<CallExec(<<ShCd, ShExport>>), CallKeep(<<ShPwd>>), CallExec(<<ShPwd>>)>>,
    <<CallExec(<<Null, Str(<<"?", "h">>), ShCd, Str(<<"@", "s">>), ShPwd>>)>>,
    <<CallExec(<<Str(<<"@", "x">>), ShPwd>>)>>,
    <<CallExec(<<Obj(SubName, {<<"w">>}), ShPwd>>)>>,
    <<CallExec(<<Obj(SubName, {PathCtor}), ShPwd>>)>>,
    <<CallExec(<<Obj(SubList, {}), Arr(<<Obj(SubList, {})>>)>>)>>,
    <<CallExec(<<Num, ShPwd>>)>>,
    <<CallExec(<<Arr(<<ShPwd, Arr(<<ShPwd, Arr(<<ShPwd, ShPwd>>)>>)>>)>>)>>,
    <<CallExec(<<ShUnset, ShPwd>>)>>,
    <<CallExec(<<ShCd>>), CallKeepAll(<< <<ShCd>>, <<ShPwd>> >>)>>,
    <<CallExec(<<WideList>>)>> }

\* createExecFunction, the dispatch on the kind of a node
Classify(node) ==
  IF node.ty \in {"null", "undefined"} THEN "skip"
  ELSE IF node.ty = "array" THEN "array"
  ELSE IF node.ty = "object" THEN "object"
  ELSE IF node.ty = "string"
    THEN IF Trim(node.text) = <<>> THEN "skip"
         ELSE IF StartsWith(Trim(node.text), <<"@">>) THEN "subcmd"
         ELSE IF StartsWith(Trim(node.text), <<"?">>) THEN "help"
         ELSE "shell"
  ELSE "skip"

\* execCommandStringAsync: let silentLevel, and the command after its markers
SilentLevel(command) ==
  IF StartsWith(command, <<"%", "%">>) THEN 2
  ELSE IF StartsWith(command, <<"%">>) THEN 1
  ELSE 0

CommandBody(command) ==
  IF StartsWith(command, <<"%", "%">>) THEN Trim(Substr(command, 2))
  ELSE IF StartsWith(command, <<"%">>) THEN Trim(Substr(command, 1))
  ELSE Trim(command)

\* execCSubcmmandStringAsync: yargs.parse of the text after the @; the words
\* that are no options are the command names, --key is the argument key
SubcmdWords(command) ==
  SelectSeq(Split(Trim(Substr(command, 1)), " "), LAMBDA w : w # <<>>)

SubcmdNames(command) == SelectSeq(SubcmdWords(command), LAMBDA w : Head(w) # "-")

SubcmdArgs(command) ==
  LET opts == SelectSeq(SubcmdWords(command), LAMBDA w : Head(w) = "-")
  IN {RemoveChars(opts[k], {"-"}) : k \in 1..Len(opts)}

----------------------------------------------------------------------------
(***************************************************************************)
(* Contexts and async calls                                                *)
(***************************************************************************)
\* const contextIdColors
ContextIdColors == <<"magenta", "green", "yellow", "red", "blue">>

Digits == <<"0", "1", "2", "3", "4", "5", "6", "7", "8", "9">>

\* String(lastId)
RECURSIVE IdText(_)
IdText(n) == IF n < 10 THEN Digits[n + 1] ELSE IdText(n \div 10) \o Digits[(n % 10) + 1]

NoErr == [cls |-> "none", at |-> 0]
NoLim == [concurrency |-> 0, activeCount |-> 0, queue |-> <<>>, units |-> <<>>,
          startOrder |-> <<>>]
NoStep == [phase |-> "none", body |-> <<>>, silent |-> 0, readCwd |-> <<>>,
           runDir |-> <<>>, env |-> NoEnv, err |-> NoErr, after |-> {}]
NoLast == [set |-> FALSE, dir |-> <<>>, env |-> NoEnv]

\* An async call. kind: "routine" (runCommandAsync and the command's run),
\* "exec" (one call of innerExec), "fan" (execArrayAsync turning parallel),
\* "all" (a routine's Promise.all over keepContext calls).
\* code: the calls of a routine, the nodes of an exec call, the elements of a
\* fan-out; i: the one being worked on. step: the shell step of an exec call
\* (after: the calls that had committed a cwd and env when it was spawned, history). st: run, await, ok, err. res, err: how
\* the awaited promise settled. ns: what became of each node (history).
\* last: where the last successful shell step of an exec call really ended,
\* fork: the cwd and env of its context when the call began, view: the cwd and
\* env that the call's own chain of steps has left in its context, from: the
\* call whose continuation a keepContext call is (history), node: the node of
\* the exec call `parent` that this call was made for (history).
BlankTask ==
  [kind |-> "exec", via |-> "", parent |-> 0, ctx |-> 0, code |-> <<>>, i |-> 1,
   st |-> "run", res |-> "none", err |-> NoErr, child |-> 0, ns |-> <<>>,
   lastId |-> 0, baseIdStack |-> <<>>, mode |-> TRUE, lim |-> NoLim, kids |-> <<>>,
   step |-> NoStep, last |-> NoLast, prev |-> 0, from |-> 0, node |-> 0,
   fork |-> [cwd |-> <<>>, env |-> NoEnv], view |-> [cwd |-> <<>>, env |-> NoEnv]]

Idle(code) == [k \in 1..Len(code) |-> "idle"]

\* the ExecContext the top-level caller passes to runCommandAsync
BaseContext == [cwd |-> <<>>, env |-> NoEnv, syncMode |-> TRUE, idStack |-> <<>>]

\* runCommandAsync: baseIdStack, and createExecFunctionContext(baseContext, baseIdStack, true)
Routine_InheritMode(parent, ctx, idStack, name, script) ==
  [BlankTask EXCEPT !.kind = "routine", !.parent = parent, !.ctx = ctx,
                    !.code = script, !.ns = Idle(script),
                    !.baseIdStack = idStack \o <<[txt |-> name, color |-> "blue"]>>,
                    !.mode = IF parent = 0 THEN TRUE ELSE ctxs[ctx].syncMode]

Routine(parent, ctx, idStack, name, script) ==
  [BlankTask EXCEPT !.kind = "routine", !.parent = parent, !.ctx = ctx,
                    !.code = script, !.ns = Idle(script),
                    !.baseIdStack = idStack \o <<[txt |-> name, color |-> "blue"]>>,
                    !.mode = TRUE]

\* the state of a run as one record, and back
S == [tasks |-> tasks, ctxs |-> ctxs, stack |-> stack, mq |-> mq]

SetS(s1) ==
  /\ tasks' = s1.tasks
  /\ ctxs' = s1.ctxs
  /\ stack' = s1.stack
  /\ mq' = s1.mq
  /\ UNCHANGED <<platform, ambient, prog>>
  /\ UNCHANGED limVars
  /\ UNCHANGED <<cacheVars, outVars>>

TaskIds == 1..Len(tasks)

\* the call that is running: the top of the call stack
OnTop(t) == stack # <<>> /\ stack[Len(stack)] = t

\* nothing is running and no promise reaction is due: the event loop takes an event
LoopIdle == stack = <<>> /\ mq = <<>>

Pop(s1) == [s1 EXCEPT !.stack = SubSeq(@, 1, Len(@) - 1)]

\* the context object of a new exec call: a new object, {...baseContext, ...}
ForkTarget_Alias(n, base) == base

ForkTarget(n, base) == n + 1

\* the cwd and env of a context
CwdEnv(context) == [cwd |-> context.cwd, env |-> context.env]

\* const newExecContext = { ...baseContext, syncMode: syncMode, idStack: [...] }
NewExecContext_KeepMode(baseContext, baseIdStack, syncMode, lastId) ==
  [baseContext EXCEPT
     !.idStack = baseIdStack \o <<[txt |-> IdText(lastId),
                                   color |-> ContextIdColors[(lastId % Len(ContextIdColors)) + 1]]>>]

NewExecContext(baseContext, baseIdStack, syncMode, lastId) ==
  [baseContext EXCEPT
     !.syncMode = syncMode,
     !.idStack = baseIdStack \o <<[txt |-> IdText(lastId),
                                   color |-> ContextIdColors[(lastId % Len(ContextIdColors)) + 1]]>>]

\* createExecFunctionContext: the function it returns, called by `owner` with cmds
ExecFunc_SameId(s1, owner, cmds, via) ==
  LET o == s1.tasks[owner]
      id == o.lastId
      newExecContext == NewExecContext(s1.ctxs[o.ctx], o.baseIdStack, o.mode, id)
      target == ForkTarget(Len(s1.ctxs), o.ctx)
      e == [BlankTask EXCEPT !.kind = "exec", !.via = via, !.parent = owner,
                             !.ctx = target,
                             !.code = cmds, !.ns = Idle(cmds),
                             !.fork = CwdEnv(newExecContext),
                             !.view = CwdEnv(newExecContext)]
  IN [s1 EXCEPT !.tasks = Append(@, e),
                !.ctxs = Append(@, newExecContext),
                !.stack = Append(@, Len(s1.tasks) + 1)]

ExecFunc(s1, owner, cmds, via) ==
  LET o == s1.tasks[owner]
      id == o.lastId
      newExecContext == NewExecContext(s1.ctxs[o.ctx], o.baseIdStack, o.mode, id)
      target == ForkTarget(Len(s1.ctxs), o.ctx)
      e == [BlankTask EXCEPT !.kind = "exec", !.via = via, !.parent = owner,
                             !.ctx = target,
                             !.code = cmds, !.ns = Idle(cmds),
                             !.fork = CwdEnv(newExecContext),
                             !.view = CwdEnv(newExecContext)]
  IN [s1 EXCEPT !.tasks = Append([@ EXCEPT ![owner].lastId = id + 1], e),
                !.ctxs = Append(@, newExecContext),
                !.stack = Append(@, Len(s1.tasks) + 1)]

\* innerExec called again on its own context: keepContext, or a list in parallel mode
InnerExec(s1, caller, ctx, cmds, via) ==
  LET e == [BlankTask EXCEPT !.kind = "exec", !.via = via, !.parent = caller,
                             !.ctx = ctx, !.code = cmds, !.ns = Idle(cmds),
                             !.from = IF via = "keep" THEN s1.tasks[caller].prev ELSE 0,
                             !.node = IF via = "inner" THEN s1.tasks[caller].i ELSE 0,
                             !.fork = CwdEnv(s1.ctxs[ctx]),
                             !.view = CwdEnv(s1.ctxs[ctx])]
  IN [s1 EXCEPT !.tasks = Append(@, e), !.stack = Append(@, Len(s1.tasks) + 1)]

\* `await p`: the call leaves the stack until p has settled
Await(s1, t, child) ==
  Pop([s1 EXCEPT !.tasks[t].st = "await", !.tasks[t].child = child,
                 !.tasks[t].res = "none", !.tasks[t].ns[s1.tasks[t].i] = "started"])

\* the promise of call t has settled: the reaction of the caller that awaits it
Notify(s1, t) ==
  LET p == s1.tasks[t].parent IN
  IF p = 0
    THEN IF s1.tasks[t].st = "err"
           THEN [s1 EXCEPT !.mq = Append(@, [why |-> "main", t |-> t])]
           ELSE s1
  ELSE IF s1.tasks[p].kind \in {"fan", "all"}
    THEN [s1 EXCEPT !.mq = Append(@, [why |-> "notify", t |-> t])]
  ELSE [s1 EXCEPT !.tasks[p].res = s1.tasks[t].st,
                  !.tasks[p].err = s1.tasks[t].err,
                  !.mq = Append(@, [why |-> "resume", t |-> p])]

\* an async call returns (st = "ok") or throws (st = "err")
Settle(s1, t, st, err) ==
  Notify([s1 EXCEPT !.tasks[t].st = st, !.tasks[t].err = err], t)

\* `for (command of commands) { await ... }`: after the awaited promise has
\* settled the loop goes on, or the rejection ends the call
Continue(task) ==
  [task EXCEPT !.ns[task.i] = "ok", !.i = @ + 1, !.st = "run",
               !.prev = IF task.kind = "routine" THEN task.child ELSE @]

AfterAwait_Ignore(task) ==
  [task EXCEPT !.ns[task.i] = IF task.res = "ok" THEN "ok" ELSE "failed",
               !.i = @ + 1, !.st = "run"]

AfterAwait(task) ==
  IF task.res = "ok"
    THEN Continue(task)
    ELSE [task EXCEPT !.ns[task.i] = "failed", !.st = "err"]

\* an awaited async function throws before its first await: the awaiting call
\* gets the rejection in a later microtask
AwaitRejected(s1, t, err) ==
  LET s2 == Await(s1, t, 0)
  IN [s2 EXCEPT !.tasks[t].res = "err", !.tasks[t].err = err,
                !.mq = Append(@, [why |-> "resume", t |-> t])]

----------------------------------------------------------------------------
(***************************************************************************)
(* The scheduler: execRuntime.ts                                           *)
(***************************************************************************)
Init ==
  /\ platform \in Platforms
  /\ ambient \in AmbientEnvs(platform)
  /\ prog \in Programs
  /\ tasks = <<Routine(0, 1, <<>>, <<"m">>, prog)>>
  /\ ctxs = <<BaseContext>>
  /\ stack = <<1>>
  /\ mq = <<>>
  /\ limState = "none"
  /\ concurrency = 0
  /\ activeCount = 0
  /\ queue = <<>>
  /\ units = [u \in UnitIds |-> NewUnit]
  /\ startOrder = <<>>
  /\ CacheIdle
  /\ OutIdle

\* keepContext is the innerExec of the call that returned it: its context
KeepTarget_Base(ts, routine) == ts[routine].ctx

KeepTarget(ts, routine) == ts[ts[routine].prev].ctx

\* command.run: the routine calls exec(...), or keepContext(...) of the last call
RoutineCall(t) ==
  /\ OnTop(t)
  /\ tasks[t].kind = "routine"
  /\ tasks[t].i <= Len(tasks[t].code)
  /\ LET call == tasks[t].code[tasks[t].i]
         s1 == Await(S, t, Len(tasks) + 1)
         all == [BlankTask EXCEPT !.kind = "all", !.parent = t,
                                  !.ctx = KeepTarget(tasks, t),
                                  !.prev = tasks[t].prev,
                                  !.code = call.nodes, !.ns = Idle(call.nodes),
                                  !.kids = [k \in 1..Len(call.nodes) |-> 0]]
     IN IF call.k = "exec"
          THEN SetS(ExecFunc(s1, t, call.nodes, "exec"))
        ELSE IF call.k = "keep"
          THEN SetS(InnerExec(s1, t, KeepTarget(tasks, t), call.nodes, "keep"))
        ELSE SetS([s1 EXCEPT !.tasks = Append(@, all),
                             !.stack = Append(@, Len(tasks) + 1)])

\* Promise.all([r.keepContext(...), r.keepContext(...)]) in a run routine: the
\* next keepContext call is made, each is an innerExec on the context of r and
\* runs up to its first await; after the last one, `await` of the Promise.all
AllCall(t) ==
  /\ OnTop(t)
  /\ tasks[t].kind = "all"
  /\ LET j == tasks[t].i
     IN IF j <= Len(tasks[t].code)
          THEN SetS(InnerExec([S EXCEPT !.tasks[t].i = j + 1,
                                        !.tasks[t].ns[j] = "started",
                                        !.tasks[t].kids[j] = Len(tasks) + 1],
                              t, tasks[t].ctx, tasks[t].code[j], "keep"))
          ELSE SetS([Pop(S) EXCEPT !.tasks[t].st = "await"])

\* one of the keepContext promises has settled: the reaction of Promise.all
AllChildSettled(c) ==
  /\ stack = <<>>
  /\ mq # <<>>
  /\ Head(mq) = [why |-> "notify", t |-> c]
  /\ tasks[tasks[c].parent].kind = "all"
  /\ LET a == tasks[c].parent
         j == CHOOSE k \in 1..Len(tasks[a].kids) : tasks[a].kids[k] = c
         ns1 == [tasks[a].ns EXCEPT ![j] = tasks[c].st]
         allOk == \A k \in 1..Len(ns1) : ns1[k] = "ok"
         s1 == [S EXCEPT !.mq = Tail(@), !.tasks[a].ns = ns1]
     IN IF tasks[a].res = "none" /\ (tasks[c].st = "err" \/ allOk)
          THEN SetS([s1 EXCEPT !.tasks[a].res = tasks[c].st,
                               !.tasks[a].err = tasks[c].err,
                               !.mq = Append(@, [why |-> "resume", t |-> a])])
          ELSE SetS(s1)

\* command.run returns
RoutineReturn(t) ==
  /\ OnTop(t)
  /\ tasks[t].kind = "routine"
  /\ tasks[t].i > Len(tasks[t].code)
  /\ SetS(Settle(Pop(S), t, "ok", NoErr))

\* innerExec: a node that is skipped
ExecSkip(t) ==
  /\ OnTop(t)
  /\ tasks[t].kind = "exec"
  /\ tasks[t].i <= Len(tasks[t].code)
  /\ Classify(tasks[t].code[tasks[t].i]) = "skip"
  /\ SetS([S EXCEPT !.tasks[t].ns[tasks[t].i] = "skipped", !.tasks[t].i = @ + 1])

\* innerExec: await execHelpStringAsync(command, context)
ExecHelp(t) ==
  /\ OnTop(t)
  /\ tasks[t].kind = "exec"
  /\ tasks[t].i <= Len(tasks[t].code)
  /\ Classify(tasks[t].code[tasks[t].i]) = "help"
  /\ LET s1 == Await(S, t, 0)
     IN SetS([s1 EXCEPT !.tasks[t].res = "ok",
                        !.mq = Append(@, [why |-> "resume", t |-> t])])

\* innerExec: await execCommandStringAsync(command, context), up to the spawn
ExecShell(t) ==
  /\ OnTop(t)
  /\ tasks[t].kind = "exec"
  /\ tasks[t].i <= Len(tasks[t].code)
  /\ Classify(tasks[t].code[tasks[t].i]) = "shell"
  /\ LET command == Trim(tasks[t].code[tasks[t].i].text)
         context == ctxs[tasks[t].ctx]
         step == [phase |-> "spawned",
                  body |-> CommandBody(command),
                  silent |-> SilentLevel(command),
                  readCwd |-> context.cwd,
                  runDir |-> RunDir(platform, context.cwd),
                  env |-> SpawnEnv(platform, ambient, context.env),
                  err |-> NoErr,
                  after |-> {u \in TaskIds : tasks[u].last.set}]
     IN SetS([Await(S, t, 0) EXCEPT !.tasks[t].step = step])

\* execArrayAsync in a context in sync mode: turning into parallel mode
ExecFanOut(t) ==
  /\ OnTop(t)
  /\ tasks[t].kind = "exec"
  /\ tasks[t].i <= Len(tasks[t].code)
  /\ Classify(tasks[t].code[tasks[t].i]) = "array"
  /\ ctxs[tasks[t].ctx].syncMode
  /\ LET commands == tasks[t].code[tasks[t].i].items
         f == [BlankTask EXCEPT
                 !.kind = "fan", !.parent = t, !.ctx = tasks[t].ctx,
                 !.node = tasks[t].i,
                 !.code = commands, !.ns = Idle(commands),
                 !.baseIdStack = ctxs[tasks[t].ctx].idStack,
                 !.mode = FALSE,
                 !.fork = CwdEnv(ctxs[tasks[t].ctx]),
                 !.view = CwdEnv(ctxs[tasks[t].ctx]),
                 !.kids = [k \in 1..Len(commands) |-> 0],
                 !.lim = [concurrency |-> FanOutLimit, activeCount |-> 0,
                          queue |-> <<>>,
                          units |-> [k \in 1..Len(commands) |-> NewUnit],
                          startOrder |-> <<>>]]
         s1 == Await(S, t, Len(tasks) + 1)
     IN SetS([s1 EXCEPT !.tasks = Append(@, f), !.stack = Append(@, Len(tasks) + 1)])

\* execArrayAsync in a context in parallel mode: turning into sync mode
ExecInner(t) ==
  /\ OnTop(t)
  /\ tasks[t].kind = "exec"
  /\ tasks[t].i <= Len(tasks[t].code)
  /\ Classify(tasks[t].code[tasks[t].i]) = "array"
  /\ ~ctxs[tasks[t].ctx].syncMode
  /\ SetS(InnerExec(Await(S, t, Len(tasks) + 1), t, tasks[t].ctx,
                    tasks[t].code[tasks[t].i].items, "inner"))

\* execCSubcmmandStringAsync, execObjectAsync and runCommandAsync up to command.run
ExecRef(t) ==
  /\ OnTop(t)
  /\ tasks[t].kind = "exec"
  /\ tasks[t].i <= Len(tasks[t].code)
  /\ Classify(tasks[t].code[tasks[t].i]) \in {"subcmd", "object"}
  /\ LET node == tasks[t].code[tasks[t].i]
         isString == Classify(node) = "subcmd"
         names == IF isString THEN SubcmdNames(Trim(node.text)) ELSE <<node.text>>
         args == IF isString THEN SubcmdArgs(Trim(node.text)) ELSE node.args
         makfyError == [cls |-> "MakfyError", at |-> t]
         typeError == [cls |-> "TypeError", at |-> t]
     IN \* execCSubcmmandStringAsync: parsed._.length is 0 or more than 1
        IF Len(names) # 1
          THEN SetS(AwaitRejected(S, t, makfyError))
        \* execObjectAsync: if (!cmd || !parsedCmd)
        ELSE IF ~HasProperty(DOMAIN Registry, names[1])
          THEN SetS(AwaitRejected(S, t, makfyError))
        \* runCommandAsync for an inherited member: argDefs is undefined, and
        \* argDefs[key] or Object.keys(argDefs) throws
        ELSE IF names[1] \notin DOMAIN Registry
          THEN SetS(AwaitRejected(S, t, typeError))
        \* runCommandAsync: if (!argDef) with unknownArgMeansError
        ELSE IF \E key \in args : ~HasProperty(Registry[names[1]].argNames, key)
          THEN SetS(AwaitRejected(S, t, makfyError))
        ELSE LET s1 == Await(S, t, Len(tasks) + 1)
                 r == [Routine(t, tasks[t].ctx, ctxs[tasks[t].ctx].idStack,
                               names[1], Registry[names[1]].script)
                         EXCEPT !.node = tasks[t].i,
                                !.fork = CwdEnv(ctxs[tasks[t].ctx])]
             IN SetS([s1 EXCEPT !.tasks = Append(@, r),
                                !.stack = Append(@, Len(tasks) + 1)])

\* innerExec: return { keepContext: innerExec }
ExecReturn(t) ==
  /\ OnTop(t)
  /\ tasks[t].kind = "exec"
  /\ tasks[t].i > Len(tasks[t].code)
  /\ SetS(Settle(Pop(S), t, "ok", NoErr))

\* commands.map((cmd) => limit(() => execFunc(cmd))): one element
FanSubmit(t) ==
  /\ OnTop(t)
  /\ tasks[t].kind = "fan"
  /\ tasks[t].i <= Len(tasks[t].code)
  /\ LET j == tasks[t].i
         lim1 == Admit(tasks[t].lim, j)
         s1 == [S EXCEPT !.tasks[t].lim = lim1, !.tasks[t].i = j + 1,
                         !.tasks[t].ns[j] = IF lim1.units[j].st = "running"
                                              THEN "started" ELSE "idle"]
     IN IF lim1.units[j].st = "running"
          THEN SetS(ExecFunc([s1 EXCEPT !.tasks[t].kids[j] = Len(tasks) + 1],
                             t, <<tasks[t].code[j]>>, "branch"))
          ELSE SetS(s1)

\* await Promise.all(all)
FanAwait(t) ==
  /\ OnTop(t)
  /\ tasks[t].kind = "fan"
  /\ tasks[t].i > Len(tasks[t].code)
  /\ IF Len(tasks[t].code) = 0
       THEN SetS([Pop(S) EXCEPT !.tasks[t].st = "await", !.tasks[t].res = "ok",
                                !.mq = Append(@, [why |-> "resume", t |-> t])])
       ELSE SetS([Pop(S) EXCEPT !.tasks[t].st = "await"])

\* the promise of a branch has settled: the limiter's then-callbacks (resolve
\* or reject, then next()), and the reaction of Promise.all
FanChildSettled(c) ==
  /\ stack = <<>>
  /\ mq # <<>>
  /\ Head(mq) = [why |-> "notify", t |-> c]
  /\ tasks[tasks[c].parent].kind = "fan"
  /\ LET f == tasks[c].parent
         j == CHOOSE k \in 1..Len(tasks[f].kids) : tasks[f].kids[k] = c
         lim0 == tasks[f].lim
         lim1 == LimNext([lim0 EXCEPT !.units[j].st = "done",
                                      !.units[j].outer = tasks[c].st])
         started == Len(lim1.startOrder) > Len(lim0.startOrder)
         j2 == lim1.startOrder[Len(lim1.startOrder)]
         allOk == \A k \in 1..Len(lim1.units) : lim1.units[k].outer = "ok"
         s1 == [S EXCEPT !.mq = Tail(@),
                         !.tasks[f].lim = lim1,
                         !.tasks[f].ns[j] = tasks[c].st]
         s2 == IF tasks[f].res = "none" /\ (tasks[c].st = "err" \/ allOk)
                 THEN [s1 EXCEPT !.tasks[f].res = tasks[c].st,
                                 !.tasks[f].err = tasks[c].err,
                                 !.mq = Append(@, [why |-> "resume", t |-> f])]
                 ELSE s1
     IN IF started
          THEN SetS(ExecFunc([s2 EXCEPT !.tasks[f].kids[j2] = Len(tasks) + 1,
                                        !.tasks[f].ns[j2] = "started"],
                             f, <<tasks[f].code[j2]>>, "branch"))
          ELSE SetS(s2)

\* execArrayAsync goes on after `await Promise.all(all)`: it returns or throws
FanSettled(t) ==
  /\ stack = <<>>
  /\ mq # <<>>
  /\ Head(mq) = [why |-> "resume", t |-> t]
  /\ tasks[t].kind \in {"fan", "all"}
  /\ SetS(Settle([S EXCEPT !.mq = Tail(@)], t, tasks[t].res, tasks[t].err))

\* a routine or an exec call goes on after its `await`
Resume(t) ==
  /\ stack = <<>>
  /\ mq # <<>>
  /\ Head(mq) = [why |-> "resume", t |-> t]
  /\ tasks[t].kind \in {"routine", "exec"}
  /\ LET c == tasks[t].child
         shared == c # 0 /\ tasks[c].via = "inner"
         task == [AfterAwait(tasks[t]) EXCEPT
                    !.view = IF shared THEN tasks[c].view ELSE @]
         s1 == [S EXCEPT !.mq = Tail(@), !.tasks[t] = task]
     IN IF task.st = "run"
          THEN SetS([s1 EXCEPT !.stack = Append(@, t)])
          ELSE SetS(Notify(s1, t))

\* the process has ended: process.exit(code) lets no call, no reaction and no
\* event handler of this process run again (the call stack holds the mark 0)
Exited == stack = <<0>>

\* what an unhandled rejection of mainAsync() does: by the version and the
\* flags of the runtime the process ends, or it warns and goes on
Unhandled == {<<0>>, <<>>}

\* mainAsync after `await execute()` has thrown: the catch block.  A MakfyError
\* or a RunError goes to exitWithError, any other error is thrown again and
\* rejects the promise of mainAsync(), which nothing handles.
MainCatch(t) ==
  /\ stack = <<>>
  /\ mq # <<>>
  /\ Head(mq) = [why |-> "main", t |-> t]
  /\ \E after \in (IF tasks[t].err.cls \in {"MakfyError", "RunError"}
                     THEN {<<0>>} ELSE Unhandled) :
       SetS([S EXCEPT !.mq = Tail(@), !.stack = after])

\* the values that the export command of the model gives variable F or H
ExportValues == { <<"1">>, <<"a", "=", "b">> }

\* The shell's directory and environment when the user's command has run with
\* exit code 0, by the command: from the directory and environment it started in.
EndStates(pf, step) ==
  LET pathName == GetPathEnvName(pf)
      here == [dir |-> step.runDir, env |-> step.env]
  IN IF step.body = <<"c">>
       THEN {[here EXCEPT !.dir = d] : d \in Dirs(pf)}
     ELSE IF step.body = <<"e">>
       THEN {[here EXCEPT !.env = (n :> v) @@ step.env] :
               n \in {VarF, VarH}, v \in ExportValues}
            \cup {[here EXCEPT !.env = (pathName :> (<<"/", "x", GetPathDelimiter(pf)>>
                                                   \o step.env[pathName])) @@ step.env]}
     ELSE IF step.body = <<"u">>
       THEN {[here EXCEPT !.env = Without(step.env, VarH)]}
     ELSE {here}

\* the "close" handler for code === 0: context.cwd and context.env are read
\* back from the two files, then finishAsync() starts
CommitCwd(pf, context, end) == ReadCwd(CwdFile(GetShellType(pf), end.dir))

CommitEnv(pf, context, end) == ReadEnv(EnvFile(GetShellType(pf), end.env))

StepClose(t, end) ==
  /\ LoopIdle
  /\ t \in TaskIds
  /\ tasks[t].step.phase = "spawned"
  /\ end \in EndStates(platform, tasks[t].step)
  /\ LET c == tasks[t].ctx
     IN SetS([S EXCEPT !.ctxs[c].cwd = CommitCwd(platform, ctxs[c], end),
                       !.ctxs[c].env = CommitEnv(platform, ctxs[c], end),
                       !.tasks[t].last = [set |-> TRUE, dir |-> end.dir, env |-> end.env],
                       !.tasks[t].view = [cwd |-> CommitCwd(platform, ctxs[c], end),
                                          env |-> CommitEnv(platform, ctxs[c], end)],
                       !.tasks[t].step.phase = "finishing"])

\* the "close" handler for a code other than 0 or for a signal:
\* finishAsync(showAndGetError(outputBuffer, code, signal))
StepFail_Reset(t, how) ==
  /\ LoopIdle
  /\ t \in TaskIds
  /\ tasks[t].step.phase = "spawned"
  /\ SetS([S EXCEPT !.tasks[t].step.phase = "finishing",
                    !.tasks[t].step.err = [cls |-> "RunError", at |-> t],
                    !.ctxs[tasks[t].ctx].cwd = <<>>])

StepFail(t, how) ==
  /\ LoopIdle
  /\ t \in TaskIds
  /\ tasks[t].step.phase = "spawned"
  /\ SetS([S EXCEPT !.tasks[t].step.phase = "finishing",
                    !.tasks[t].step.err = [cls |-> "RunError", at |-> t]])

\* the "error" handler: the shell could not be spawned
StepError(t) ==
  /\ LoopIdle
  /\ t \in TaskIds
  /\ tasks[t].step.phase = "spawned"
  /\ SetS([S EXCEPT !.tasks[t].step.phase = "done",
                    !.tasks[t].step.err = [cls |-> "MakfyError", at |-> t],
                    !.tasks[t].res = "err",
                    !.tasks[t].err = [cls |-> "MakfyError", at |-> t],
                    !.mq = Append(@, [why |-> "resume", t |-> t])])

\* finishAsync after `await outputBuffer.flushAsync()`: cleanup, reject or resolve
StepFinish(t) ==
  /\ LoopIdle
  /\ t \in TaskIds
  /\ tasks[t].step.phase = "finishing"
  /\ SetS([S EXCEPT !.tasks[t].step.phase = "done",
                    !.tasks[t].res = IF tasks[t].step.err = NoErr THEN "ok" ELSE "err",
                    !.tasks[t].err = tasks[t].step.err,
                    !.mq = Append(@, [why |-> "resume", t |-> t])])

Next ==
  \/ \E t \in TaskIds : RoutineCall(t)
  \/ \E t \in TaskIds : RoutineReturn(t)
  \/ \E t \in TaskIds : AllCall(t)
  \/ \E t \in TaskIds : AllChildSettled(t)
  \/ \E t \in TaskIds : ExecSkip(t)
  \/ \E t \in TaskIds : ExecHelp(t)
  \/ \E t \in TaskIds : ExecShell(t)
  \/ \E t \in TaskIds : ExecFanOut(t)
  \/ \E t \in TaskIds : ExecInner(t)
  \/ \E t \in TaskIds : ExecRef(t)
  \/ \E t \in TaskIds : ExecReturn(t)
  \/ \E t \in TaskIds : FanSubmit(t)
  \/ \E t \in TaskIds : FanAwait(t)
  \/ \E t \in TaskIds : FanChildSettled(t)
  \/ \E t \in TaskIds : FanSettled(t)
  \/ \E t \in TaskIds : Resume(t)
  \/ \E t \in TaskIds : MainCatch(t)
  \/ \E t \in TaskIds : \E end \in EndStates(platform, tasks[t].step) : StepClose(t, end)
  \/ \E t \in TaskIds, how \in {"code", "signal"} : StepFail(t, how)
  \/ \E t \in TaskIds : StepError(t)
  \/ \E t \in TaskIds : StepFinish(t)

Spec == Init /\ [][Next]_vars

----------------------------------------------------------------------------
(***************************************************************************)
(* Properties of the scheduler                                             *)
(***************************************************************************)
ExecIds == {t \in TaskIds : tasks[t].kind = "exec"}
FanIds == {t \in TaskIds : tasks[t].kind = "fan"}
Settled(t) == tasks[t].st \in {"ok", "err"}
Passed(x) == x \in {"ok", "skipped"}
InFlight(t) == tasks[t].step.phase = "spawned"

\* the error with which the promise of node k of exec call t was rejected
NodeError(t, k) ==
  IF Classify(tasks[t].code[k]) = "shell" THEN tasks[t].step.err
  ELSE IF tasks[t].child # 0 THEN tasks[tasks[t].child].err
  ELSE [cls |-> "MakfyError", at |-> t]

\* C1: in every exec call a node is started only when the promises of all the
\* nodes before it have settled without failure; when a node fails no later
\* node is ever started and the call rejects with that node's failure.
SequentialOrder ==
  \A t \in ExecIds :
    LET task == tasks[t]
        n == Len(task.code)
    IN /\ \A k \in 1..n : task.ns[k] # "idle" => \A j \in 1..(k - 1) : Passed(task.ns[j])
       /\ \A k \in 1..n : task.ns[k] = "failed" =>
            /\ \A j \in (k + 1)..n : task.ns[j] = "idle"
            /\ task.st = "err"
            /\ task.err = NodeError(t, k)
       /\ task.st = "ok" => \A k \in 1..n : Passed(task.ns[k])
       /\ task.st = "err" => \E k \in 1..n : task.ns[k] = "failed"

\* C1 witness: in a call over three shell steps the second has failed after
\* the first succeeded, the third was never started and the call has rejected.
SequentialOrderWitness ==
  \E t \in ExecIds :
    /\ Len(tasks[t].code) = 3
    /\ \A k \in 1..3 : Classify(tasks[t].code[k]) = "shell"
    /\ tasks[t].ns = <<"ok", "failed", "idle">>
    /\ tasks[t].st = "err"
    /\ tasks[t].err.cls = "RunError"

\* C2 (as claimed): a fan-out, and the exec call that awaits it, settles only
\* when every one of its elements has settled, also when an element fails.
FanOutWaitsForAll ==
  \A f \in FanIds :
    (Settled(f) \/ Settled(tasks[f].parent)) =>
      \A j \in 1..Len(tasks[f].kids) :
        tasks[f].kids[j] # 0 /\ Settled(tasks[f].kids[j])

\* C3: for a list [a, [b, c]] met in sequential mode, the branch of a and the
\* branch of the inner list are both started before the fan-out waits, and the
\* inner list is run by one sequential call: c is started only after b has
\* settled without failure.
NestingParity ==
  \A f \in FanIds :
    /\ (tasks[f].st # "run" /\ Len(tasks[f].code) <= FanOutLimit) =>
         \A j \in 1..Len(tasks[f].kids) :
           /\ tasks[f].kids[j] # 0
           /\ Classify(tasks[f].code[j]) \in {"shell", "array"} =>
                tasks[tasks[f].kids[j]].ns[1] # "idle"
    /\ \A j \in 1..Len(tasks[f].kids) :
         LET b == tasks[f].kids[j] IN
         (b # 0 /\ tasks[f].code[j].ty = "array" /\ tasks[b].ns[1] # "idle") =>
           LET e == tasks[b].child IN
           /\ tasks[e].kind = "exec"
           /\ tasks[e].code = tasks[f].code[j].items
           /\ \A k \in 1..Len(tasks[e].code) :
                tasks[e].ns[k] # "idle" => \A i \in 1..(k - 1) : Passed(tasks[e].ns[i])

\* C3 witness: the step of a is still running while, in the inner list, b has
\* succeeded and c is running.
NestingParityWitness ==
  \E f \in FanIds :
    /\ Len(tasks[f].code) = 2
    /\ tasks[f].kids[1] # 0 /\ tasks[f].kids[2] # 0
    /\ InFlight(tasks[f].kids[1])
    /\ tasks[f].code[2].ty = "array"
    /\ LET e == tasks[tasks[f].kids[2]].child
       IN e # 0 /\ tasks[e].ns = <<"ok", "started">> /\ InFlight(e)

\* C4 (as claimed): a shell step that follows a successful shell step of the
\* same exec call is run from exactly the directory that step ended in.
CwdPropagates ==
  \A t \in ExecIds :
    (InFlight(t) /\ tasks[t].last.set) => tasks[t].step.runDir = tasks[t].last.dir

\* the calls that run in the context of a branch of a fan-out
RECURSIVE InBranch(_)
InBranch(t) ==
  \/ tasks[t].via = "branch"
  \/ tasks[t].via = "inner" /\ InBranch(tasks[t].parent)

\* the branch of a fan-out in which such a call runs
RECURSIVE BranchOf(_)
BranchOf(t) == IF tasks[t].via = "branch" THEN t ELSE BranchOf(tasks[t].parent)

\* call t is not settled and no call to which it lent its own context is running
Quiet(t) ==
  /\ ~Settled(t)
  /\ ~(tasks[t].st = "await" /\ tasks[t].child # 0 /\ tasks[tasks[t].child].via = "inner")

\* C5: every branch of a fan-out starts with the cwd and env that the parent
\* context had when the fan-out began, and the context of a branch, and of the
\* parent, only ever holds what its own chain of steps has committed: never
\* what a sibling branch committed.
ForkIsolation ==
  /\ \A f \in FanIds : \A j \in 1..Len(tasks[f].kids) :
       tasks[f].kids[j] # 0 => tasks[tasks[f].kids[j]].fork = tasks[f].fork
  /\ \A u \in ExecIds :
       (InBranch(u) /\ Quiet(u)) => CwdEnv(ctxs[tasks[u].ctx]) = tasks[u].view
  /\ \A f \in FanIds :
       Quiet(tasks[f].parent) =>
         CwdEnv(ctxs[tasks[tasks[f].parent].ctx]) = tasks[tasks[f].parent].view

\* C5 witness: a step is spawned in one branch after a sibling branch has
\* committed another directory than the one this step starts from.
ForkIsolationWitness ==
  \E u \in ExecIds : \E v \in tasks[u].step.after :
    /\ InFlight(u)
    /\ InBranch(u) /\ InBranch(v)
    /\ tasks[BranchOf(u)].parent = tasks[BranchOf(v)].parent
    /\ BranchOf(u) # BranchOf(v)
    /\ tasks[v].view.cwd # tasks[u].step.readCwd
    /\ tasks[v].view.cwd # tasks[v].fork.cwd

\* C6: a keepContext call runs in the context of the exec call that returned
\* it: same identifier stack, same scheduling mode, and its first shell step
\* starts from the cwd and env committed by the last successful step of that call.
KeepContextSame ==
  \A k \in ExecIds :
    tasks[k].via = "keep" =>
      LET e == tasks[k].from IN
      /\ tasks[e].st = "ok"
      /\ ctxs[tasks[k].ctx].idStack = ctxs[tasks[e].ctx].idStack
      /\ ctxs[tasks[k].ctx].syncMode = ctxs[tasks[e].ctx].syncMode
      /\ (InFlight(k) /\ ~tasks[k].last.set /\ tasks[e].last.set) =>
           /\ tasks[k].step.readCwd = CommitCwd(platform, ctxs[tasks[e].ctx], tasks[e].last)
           /\ tasks[k].step.runDir =
                RunDir(platform, CommitCwd(platform, ctxs[tasks[e].ctx], tasks[e].last))
           /\ tasks[k].step.env =
                SpawnEnv(platform, ambient, CommitEnv(platform, ctxs[tasks[e].ctx], tasks[e].last))

\* C6 witness: the first shell step of a keepContext call is running, from the
\* directory and with the variable that the steps of the first call left.
KeepContextWitness ==
  \E k \in ExecIds :
    /\ tasks[k].via = "keep"
    /\ InFlight(k)
    /\ ~tasks[k].last.set
    /\ tasks[tasks[k].from].last.set
    /\ tasks[k].step.readCwd # <<>>
    /\ VarF \in DOMAIN tasks[k].step.env

\* C7 (as claimed): every variable of the environment a successful shell step
\* ended with is handed, with its value, to the next shell step of the same
\* exec call, the PATH variable included.
EnvPropagates ==
  \A t \in ExecIds :
    (InFlight(t) /\ tasks[t].last.set) =>
      \A n \in DOMAIN tasks[t].last.env :
        n \in DOMAIN tasks[t].step.env /\ tasks[t].step.env[n] = tasks[t].last.env[n]

\* the sub-command references among the nodes: the name and the argument keys
IsRef(node) == Classify(node) \in {"subcmd", "object"}
RefNames(node) ==
  IF Classify(node) = "subcmd" THEN SubcmdNames(Trim(node.text)) ELSE <<node.text>>
RefArgs(node) ==
  IF Classify(node) = "subcmd" THEN SubcmdArgs(Trim(node.text)) ELSE node.args

\* the calls that exec call t has made for its node k
MadeFor(t, k) == {c \in TaskIds : tasks[c].parent = t /\ tasks[c].node = k}

\* C24 (as claimed): when an exec call comes to a sub-command reference whose
\* name is not in the registry, or whose argument map has a key that the
\* schema of the target does not define, the run routine of the target is not
\* invoked, no later node of the call is started, and the call rejects with a
\* configuration error.
SubcommandRejects ==
  \A t \in ExecIds : \A k \in 1..Len(tasks[t].code) :
    LET node == tasks[t].code[k] IN
    (/\ IsRef(node)
     /\ Len(RefNames(node)) = 1
     /\ tasks[t].ns[k] # "idle"
     /\ \/ RefNames(node)[1] \notin DOMAIN Registry
        \/ ~(RefArgs(node) \subseteq Registry[RefNames(node)[1]].argNames))
    => /\ MadeFor(t, k) = {}
       /\ \A j \in (k + 1)..Len(tasks[t].code) : tasks[t].ns[j] = "idle"
       /\ tasks[t].ns[k] \in {"started", "failed"}
       /\ tasks[t].ns[k] = "failed" =>
            tasks[t].st = "err" /\ tasks[t].err.cls = "MakfyError"

\* the exec calls made by the run routine of a referenced command, and the
\* exec call in whose context the reference sits
ByReferenced(e) ==
  /\ tasks[e].via = "exec"
  /\ tasks[tasks[e].parent].kind = "routine"
  /\ tasks[tasks[e].parent].parent # 0
Referrer(e) == tasks[tasks[e].parent].parent

\* how exec call e runs the list at its node k, once it has come to it
RunsInParallel(e, k) == \A c \in MadeFor(e, k) : tasks[c].kind = "fan"
RunsSequentially(e, k) == \A c \in MadeFor(e, k) : tasks[c].via = "inner"

\* C25 (as claimed): an exec call made by the run routine of a referenced
\* command works in the mode of the context the reference sits in: a list
\* passed to it is run in parallel when that context is in sequential mode
\* and sequentially when it is in parallel mode.
ModeInherited ==
  \A e \in ExecIds :
    ByReferenced(e) =>
      /\ ctxs[tasks[e].ctx].syncMode = ctxs[tasks[Referrer(e)].ctx].syncMode
      /\ \A k \in 1..Len(tasks[e].code) :
           (tasks[e].code[k].ty = "array" /\ tasks[e].ns[k] # "idle") =>
             IF ctxs[tasks[Referrer(e)].ctx].syncMode
               THEN RunsInParallel(e, k)
               ELSE RunsSequentially(e, k)

\* C25 (amended): an exec call made by the run routine of a referenced
\* command works in sequential mode, whatever the mode of the context the
\* reference sits in: a list passed to it is run in parallel.
SubcommandSequential ==
  \A e \in ExecIds :
    ByReferenced(e) =>
      /\ ctxs[tasks[e].ctx].syncMode
      /\ \A k \in 1..Len(tasks[e].code) :
           (tasks[e].code[k].ty = "array" /\ tasks[e].ns[k] # "idle") =>
             MadeFor(e, k) # {} /\ RunsInParallel(e, k)

\* C25 witness: a reference sits in a branch of a fan-out, a context in
\* parallel mode, and both elements of the list that the routine of the
\* referenced command passed to its exec are running at once.
SubcommandSequentialWitness ==
  \E e \in ExecIds : \E f \in FanIds :
    /\ ByReferenced(e)
    /\ ~ctxs[tasks[Referrer(e)].ctx].syncMode
    /\ tasks[f].parent = e
    /\ Len(tasks[f].kids) = 2
    /\ tasks[f].kids[1] # 0 /\ InFlight(tasks[f].kids[1])
    /\ tasks[f].kids[2] # 0 /\ InFlight(tasks[f].kids[2])

\* C26 (as claimed): a node that is neither null nor undefined, nor a string,
\* nor an object, nor a list is never skipped: the exec call that comes to it
\* starts no later node and rejects with a configuration error.
MalformedNodeFatal ==
  \A t \in ExecIds : \A k \in 1..Len(tasks[t].code) :
    (/\ tasks[t].code[k].ty \notin {"null", "undefined", "string", "object", "array"}
     /\ tasks[t].ns[k] # "idle")
    => /\ tasks[t].ns[k] \in {"started", "failed"}
       /\ \A j \in (k + 1)..Len(tasks[t].code) : tasks[t].ns[j] = "idle"
       /\ tasks[t].ns[k] = "failed" =>
            tasks[t].st = "err" /\ tasks[t].err.cls = "MakfyError"

\* C27 (as claimed): a list nested in a list that is run sequentially is run
\* in parallel again: when nothing more can run without an event, every
\* element of such a list has been started.
DeepParity ==
  \A t \in ExecIds :
    (/\ LoopIdle
     /\ tasks[t].via = "inner"
     /\ tasks[t].st = "await"
     /\ tasks[t].code[tasks[t].i].ty = "array")
    => \A c \in MadeFor(t, tasks[t].i) :
         \A j \in 1..Len(tasks[c].code) : tasks[c].ns[j] # "idle"

\* nothing of the run will happen any more: the process has ended, or nothing
\* is running, no reaction is due and no shell step is open
Quiescent ==
  \/ Exited
  \/ LoopIdle /\ \A t \in TaskIds : tasks[t].step.phase \notin {"spawned", "finishing"}

\* C28 (as claimed): once a branch of a fan-out has failed, every other
\* element of the fan-out is still started and every started branch still
\* runs to its own completion or failure: the run does not come to rest
\* before that.
NoCancellation ==
  \A f \in FanIds :
    (/\ Quiescent
     /\ \E j \in 1..Len(tasks[f].code) :
          tasks[f].kids[j] # 0 /\ tasks[tasks[f].kids[j]].st = "err")
    => \A j \in 1..Len(tasks[f].code) :
         tasks[f].kids[j] # 0 /\ Settled(tasks[f].kids[j])

\* the shell step of call t is open: spawned with the cwd and env of its
\* context, and not yet done with committing into it
Open(t) == tasks[t].step.phase \in {"spawned", "finishing"}

\* C29 (as claimed): no two exec calls that have a shell step open at the
\* same time work on the same context object.
OneStepPerContext ==
  \A t, u \in ExecIds :
    (t # u /\ Open(t) /\ Open(u)) => tasks[t].ctx # tasks[u].ctx

\* the id and the colour at the end of the id stack of the context of call t
OwnId(t) == ctxs[tasks[t].ctx].idStack[Len(ctxs[tasks[t].ctx].idStack)]

\* C33: in a fan-out the branches are started in the order of the elements of
\* the list, also the ones that had to wait for a free slot: when the branch
\* of an element is started the branches of all elements before it have been
\* started, earlier; the branch of the j-th element has the id j - 1 after
\* the id stack of the list's context, in the colour j - 1 modulo 5 of the
\* palette.
FanStartOrder ==
  \A f \in FanIds :
    \A k \in 1..Len(tasks[f].code) :
      tasks[f].kids[k] # 0 =>
        /\ \A j \in 1..(k - 1) :
             tasks[f].kids[j] # 0 /\ tasks[f].kids[j] < tasks[f].kids[k]
        /\ Len(ctxs[tasks[tasks[f].kids[k]].ctx].idStack) = Len(ctxs[tasks[f].ctx].idStack) + 1
        /\ OwnId(tasks[f].kids[k]).txt = IdText(k - 1)
        /\ OwnId(tasks[f].kids[k]).color =
             <<"magenta", "green", "yellow", "red", "blue">>[((k - 1) % 5) + 1]

\* C33 witness: in a fan-out of more elements than the limit the two branches
\* that had to wait have been started, and the branch of the second element
\* has settled while the branch of the first element is still running.
FanStartOrderWitness ==
  \E f \in FanIds :
    /\ Len(tasks[f].code) = FanOutLimit + 2
    /\ tasks[f].kids[FanOutLimit + 1] # 0
    /\ tasks[f].kids[FanOutLimit + 2] # 0
    /\ tasks[f].lim.units[FanOutLimit + 2].qpos = 2
    /\ Settled(tasks[f].kids[2])
    /\ InFlight(tasks[f].kids[1])

\* the calls that hand nothing back: the run routine of a referenced command
\* and a fan-out, made by exec call t for its node k
Detached(t, k) == {c \in MadeFor(t, k) : tasks[c].kind \in {"routine", "fan"}}

\* C34: the steps of a referenced command and the branches of a fan-out leave
\* the context of the exec call that made them as it was: while the call
\* waits for them its context holds the cwd and env it held when they began,
\* and the shell step that the call runs right after them reads that cwd and
\* is given that env.
NoFlowBack ==
  \A t \in ExecIds :
    /\ \A c \in Detached(t, tasks[t].i) :
         (tasks[t].st = "await" /\ tasks[t].child = c) =>
           CwdEnv(ctxs[tasks[t].ctx]) = tasks[c].fork
    /\ \A c \in Detached(t, tasks[t].i - 1) :
         InFlight(t) =>
           /\ tasks[t].step.readCwd = tasks[c].fork.cwd
           /\ tasks[t].step.env = SpawnEnv(platform, ambient, tasks[c].fork.env)

\* C34 witness: the shell step after a reference is running, from the
\* directory the caller had before the reference, and a step of the
\* referenced command has ended in another directory and committed it.
NoFlowBackWitness ==
  \E t \in ExecIds : \E c \in Detached(t, tasks[t].i - 1) : \E e \in ExecIds :
    /\ InFlight(t)
    /\ tasks[c].kind = "routine"
    /\ tasks[e].parent = c
    /\ tasks[e].last.set
    /\ tasks[e].view.cwd # tasks[e].fork.cwd
    /\ tasks[e].view.cwd # tasks[t].step.readCwd

\* the calls of the exec function of routine r, and the ones made before call e
ExecCallsOf(r) == {e \in ExecIds : tasks[e].via = "exec" /\ tasks[e].parent = r}
EarlierCalls(e) == {d \in ExecCallsOf(tasks[e].parent) : d < e}

\* C35: every call of the exec function of a command begins with the cwd and
\* env of the command's base context, whatever the earlier calls committed:
\* its first shell step reads that cwd and is given that env; the n-th call
\* has the id n - 1, so no two calls of one command have the same id.
FreshExecCalls ==
  \A e \in ExecIds :
    (tasks[e].via = "exec" /\ tasks[tasks[e].parent].kind = "routine") =>
      LET base == tasks[tasks[e].parent].fork IN
      /\ tasks[e].fork = base
      /\ (InFlight(e) /\ \A k \in 1..(tasks[e].i - 1) : tasks[e].ns[k] = "skipped") =>
           /\ tasks[e].step.readCwd = base.cwd
           /\ tasks[e].step.env = SpawnEnv(platform, ambient, base.env)
      /\ OwnId(e).txt = IdText(Cardinality(EarlierCalls(e)))
      /\ \A d \in EarlierCalls(e) : OwnId(d) # OwnId(e)

\* C35 witness: the first shell step of a call of exec is running from the
\* base directory, after an earlier call of the same command ended in
\* another directory and a keepContext call went on from there.
FreshExecCallsWitness ==
  \E e \in ExecIds : \E d \in EarlierCalls(e) : \E k \in ExecIds :
    /\ tasks[e].via = "exec"
    /\ InFlight(e)
    /\ tasks[e].i = 1
    /\ tasks[d].last.set
    /\ tasks[d].view.cwd # tasks[e].step.readCwd
    /\ tasks[k].via = "keep" /\ tasks[k].from = d /\ tasks[k].st = "ok"

\* C36: a shell step that ends with an exit code other than 0, by a signal or
\* because its shell could not be spawned leaves every context as it is, the
\* cwd and env of its own context included; a context changes only when a
\* shell step that works on it ends with exit code 0.
FailureKeepsContext ==
  [][/\ \A t \in TaskIds :
         (/\ tasks[t].step.phase = "spawned"
          /\ tasks'[t].step.phase # "spawned"
          /\ tasks'[t].step.err # NoErr)
         => \A c \in 1..Len(ctxs) : ctxs'[c] = ctxs[c]
     /\ \A c \in 1..Len(ctxs) :
         ctxs'[c] # ctxs[c] =>
           \E t \in TaskIds :
             /\ tasks[t].ctx = c
             /\ tasks[t].step.phase = "spawned"
             /\ tasks'[t].step.phase = "finishing"
             /\ tasks'[t].step.err = NoErr]_vars

\* C36 witness: a step has failed after an earlier step of the same call had
\* committed a directory and a variable, and the context still holds both.
FailureKeepsContextWitness ==
  \E t \in ExecIds :
    /\ tasks[t].step.err.cls = "RunError"
    /\ tasks[t].last.set
    /\ ctxs[tasks[t].ctx].cwd # <<>>
    /\ VarF \in DOMAIN ctxs[tasks[t].ctx].env
    /\ CwdEnv(ctxs[tasks[t].ctx]) = tasks[t].view

\* C30 (as claimed): a shell step that follows, in the same exec call, a
\* successful step that ended without variable H is run without variable H.
UnsetPropagates ==
  \A t \in ExecIds :
    (InFlight(t) /\ tasks[t].last.set /\ VarH \notin DOMAIN tasks[t].last.env) =>
      VarH \notin DOMAIN tasks[t].step.env

----------------------------------------------------------------------------
(***************************************************************************)
(* JavaScript values and JSON, as far as hash collections need them        *)
(***************************************************************************)
\* A JavaScript value: undefined, null, a string, a number, a plain object
\* (m: its own properties) or a function inherited from Object.prototype.
JUndef == [t |-> "undef", s |-> <<>>, n |-> 0, m |-> <<>>]
JNull == [t |-> "null", s |-> <<>>, n |-> 0, m |-> <<>>]
JFun == [t |-> "fun", s |-> <<>>, n |-> 0, m |-> <<>>]
JStr(text) == [t |-> "str", s |-> text, n |-> 0, m |-> <<>>]
JNum(k) == [t |-> "num", s |-> <<>>, n |-> k, m |-> <<>>]
JObj(members) == [t |-> "obj", s |-> <<>>, n |-> 0, m |-> members]

\* the names of the hash collection format
KHashType == <<"h", "a", "s", "h", "T", "y", "p", "e">>
KHashes == <<"h", "a", "s", "h", "e", "s">>
KHash == <<"h", "a", "s", "h">>
KSize == <<"s", "i", "z", "e">>
Sha1 == <<"s", "h", "a", "1">>

\* the paths of the working directory: a plain name, a name that holds a
\* double quote, and a name that Object.prototype also defines
PathA == <<"a">>
PathQ == <<"q", "\"">>
Paths == {PathA, PathQ, PathCtor}

\* the order in which the own properties of the objects of the model were created
KeyOrder == <<KHashType, KHashes, KHash, KSize, PathA, PathQ, PathCtor>>

\* v[key]: an own property, else an inherited one, else undefined;
\* reading a property of undefined or null throws a TypeError
GetThrows(v) == v.t \in {"undef", "null"}
Get(v, key) ==
  IF v.t = "obj" /\ key \in DOMAIN v.m THEN v.m[key]
  ELSE IF key \in ObjectPrototypeNames THEN JFun
  ELSE JUndef

\* Object.keys(v): the own property names; throws for undefined and null
KeysThrows(v) == v.t \in {"undef", "null"}
Keys(v) ==
  IF v.t = "obj" THEN DOMAIN v.m
  ELSE IF v.t = "str" THEN {<<Digits[i]>> : i \in 1..Len(v.s)}
  ELSE {}

\* if (v): the truthiness of a value
Truthy(v) ==
  CASE v.t \in {"undef", "null"} -> FALSE
    [] v.t = "num" -> v.n # 0
    [] v.t = "str" -> v.s # <<>>
    [] OTHER -> TRUE

\* a === b: by value for primitives, by identity for objects (two objects of
\* the model that are compared are never the same object)
StrictEq(a, b) == a.t = b.t /\ a.t # "obj" /\ a = b

\* the decimal text of a natural number, and back
RECURSIVE NumText(_)
NumText(k) == IF k < 10 THEN <<Digits[k + 1]>> ELSE NumText(k \div 10) \o <<Digits[(k % 10) + 1]>>

DigitValue(c) == (CHOOSE i \in 1..10 : Digits[i] = c) - 1

IsDigit(c) == \E i \in 1..10 : Digits[i] = c

\* JSON.stringify of a string: quoted, with " and \ escaped
JsonQuote(text) ==
  <<"\"">> \o ReplaceCharBy(ReplaceCharBy(text, "\\", <<"\\", "\\">>), "\"", <<"\\", "\"">>)
    \o <<"\"">>

\* JSON.stringify(v): members whose value is undefined or a function are left out
RECURSIVE JsonStringify(_)
RECURSIVE JsonMembers(_, _)
JsonMembers(v, keys) ==
  IF keys = <<>> THEN <<>>
  ELSE JsonQuote(Head(keys)) \o <<":">> \o JsonStringify(v.m[Head(keys)])
         \o (IF Len(keys) > 1 THEN <<",">> ELSE <<>>) \o JsonMembers(v, Tail(keys))

JsonStringify(v) ==
  CASE v.t = "str" -> JsonQuote(v.s)
    [] v.t = "num" -> NumText(v.n)
    [] v.t = "null" -> <<"n", "u", "l", "l">>
    [] v.t = "obj" ->
         <<"{">> \o JsonMembers(v, SelectSeq(KeyOrder,
                      LAMBDA k : k \in DOMAIN v.m /\ v.m[k].t \notin {"undef", "fun"}))
           \o <<"}">>
    [] OTHER -> <<>>

\* JSON.parse(text) for texts made of objects, strings, natural numbers and
\* null: [ok |-> FALSE] stands for the SyntaxError it throws
ParseFail == [ok |-> FALSE, v |-> JUndef, rest |-> <<>>]

\* the characters of a string literal after its opening quote
RECURSIVE ParseChars(_, _)
ParseChars(text, acc) ==
  IF text = <<>> THEN ParseFail
  ELSE IF Head(text) = "\"" THEN [ok |-> TRUE, v |-> JStr(acc), rest |-> Tail(text)]
  ELSE IF Head(text) = "\\"
    THEN IF Len(text) >= 2 /\ text[2] \in {"\"", "\\"}
           THEN ParseChars(Substr(text, 2), Append(acc, text[2]))
           ELSE ParseFail
  ELSE ParseChars(Tail(text), Append(acc, Head(text)))

RECURSIVE ParseDigits(_, _)
ParseDigits(text, acc) ==
  IF text # <<>> /\ IsDigit(Head(text))
    THEN ParseDigits(Tail(text), acc * 10 + DigitValue(Head(text)))
    ELSE [ok |-> TRUE, v |-> JNum(acc), rest |-> text]

RECURSIVE ParseValue(_)
RECURSIVE ParseMembers(_, _)
\* the members of an object after its opening brace; a later member replaces
\* an earlier one of the same name
ParseMembers(text, acc) ==
  LET t1 == TrimStart(text) IN
  IF t1 = <<>> \/ Head(t1) # "\"" THEN ParseFail
  ELSE LET key == ParseChars(Tail(t1), <<>>) IN
       IF ~key.ok THEN ParseFail
       ELSE LET t2 == TrimStart(key.rest) IN
            IF t2 = <<>> \/ Head(t2) # ":" THEN ParseFail
            ELSE LET val == ParseValue(Tail(t2)) IN
                 IF ~val.ok THEN ParseFail
                 ELSE LET acc1 == (key.v.s :> val.v) @@ acc
                          t3 == TrimStart(val.rest)
                      IN IF t3 = <<>> THEN ParseFail
                         ELSE IF Head(t3) = "}"
                           THEN [ok |-> TRUE, v |-> JObj(acc1), rest |-> Tail(t3)]
                         ELSE IF Head(t3) = "," THEN ParseMembers(Tail(t3), acc1)
                         ELSE ParseFail

ParseValue(text) ==
  LET t1 == TrimStart(text) IN
  IF t1 = <<>> THEN ParseFail
  ELSE IF Head(t1) = "\"" THEN ParseChars(Tail(t1), <<>>)
  ELSE IF IsDigit(Head(t1)) THEN ParseDigits(t1, 0)
  ELSE IF StartsWith(t1, <<"n", "u", "l", "l">>)
    THEN [ok |-> TRUE, v |-> JNull, rest |-> Substr(t1, 4)]
  ELSE IF Head(t1) = "{"
    THEN LET t2 == TrimStart(Tail(t1)) IN
         IF t2 # <<>> /\ Head(t2) = "}"
           THEN [ok |-> TRUE, v |-> JObj(<<>>), rest |-> Tail(t2)]
           ELSE ParseMembers(t2, <<>>)
  ELSE ParseFail

JsonParse(text) ==
  LET r == ParseValue(text) IN
  IF r.ok /\ TrimStart(r.rest) = <<>> THEN [ok |-> TRUE, v |-> r.v] ELSE [ok |-> FALSE, v |-> JUndef]

----------------------------------------------------------------------------
(***************************************************************************)
(* Hash collections: src/unnamed/part_003 (lib/hash.ts)                    *)
(***************************************************************************)
\* The contents a file of the working directory can have ("none": no such
\* file), their byte sizes and their sha1 digests in base64.
NoFile == "none"
FileContents == {"x", "y", "z"}
SizeOf(content) == IF content = "z" THEN 2 ELSE 1
DigestOf(content) == <<"D", content, "=">>

\* generateHashEntryAsync(filePath, hashType, onlySize)
GenerateHashEntry(content, onlySize) ==
  IF onlySize
    THEN JObj(KSize :> JNum(SizeOf(content)))
    ELSE JObj((KHash :> JStr(DigestOf(content))) @@ (KSize :> JNum(SizeOf(content))))

\* generateHashCollectionAsync(files, hashType, onlySize) over the files as
\* they are now; fs.statSync throws for a file that is no longer there
GenerateThrows(files, now) == \E f \in files : now[f] = NoFile
GenerateHashCollection(files, now, hashType, onlySize) ==
  JObj((KHashType :> JStr(hashType))
         @@ (KHashes :> JObj([f \in files |-> GenerateHashEntry(now[f], onlySize)])))

\* the result of getHashCollectionDelta (the four lists as sets of paths), and
\* the Error or TypeError it throws
NoDelta ==
  [threw |-> FALSE, hasChanges |-> FALSE, cleanRun |-> FALSE,
   removed |-> {}, modified |-> {}, unmodified |-> {}, added |-> {}]
DeltaThrew == [NoDelta EXCEPT !.threw = TRUE]

\* how the loop body of getHashCollectionDelta classifies path e
DeltaClass(oldHashes, newHashes, e) ==
  LET oldHash == Get(oldHashes, e)
      newHash == Get(newHashes, e)
  IN IF Truthy(oldHash) /\ Truthy(newHash)
       THEN IF StrictEq(Get(oldHash, KSize), Get(newHash, KSize))
                 /\ StrictEq(Get(oldHash, KHash), Get(newHash, KHash))
              THEN "unmodified"
              ELSE "modified"
     ELSE IF Truthy(oldHash) THEN "removed"
     ELSE IF Truthy(newHash) THEN "added"
     ELSE "throws"

\* getHashCollectionDelta(oldHashCollection, newHashCollection)
GetHashCollectionDelta_NoCleanRun(oldHashCollection, newHashCollection) ==
  IF GetThrows(oldHashCollection) THEN
    [NoDelta EXCEPT !.hasChanges = Keys(Get(newHashCollection, KHashes)) # {},
                    !.added = Keys(Get(newHashCollection, KHashes))]
  ELSE DeltaThrew

GetHashCollectionDelta(oldHashCollection, newHashCollection) ==
  IF oldHashCollection.t = "undef"
    THEN [NoDelta EXCEPT !.hasChanges = TRUE, !.cleanRun = TRUE,
                         !.added = Keys(Get(newHashCollection, KHashes))]
  ELSE IF GetThrows(oldHashCollection) THEN DeltaThrew
  ELSE IF ~StrictEq(Get(oldHashCollection, KHashType), Get(newHashCollection, KHashType))
    THEN DeltaThrew
  ELSE LET oldHashes == Get(oldHashCollection, KHashes)
           newHashes == Get(newHashCollection, KHashes)
       IN IF KeysThrows(oldHashes) \/ KeysThrows(newHashes) THEN DeltaThrew
          ELSE LET union == Keys(oldHashes) \cup Keys(newHashes)
                   Of(class) == {e \in union : DeltaClass(oldHashes, newHashes, e) = class}
               IN IF Of("throws") # {} THEN DeltaThrew
                  ELSE [NoDelta EXCEPT
                          !.hasChanges = Of("modified") \cup Of("removed") \cup Of("added") # {},
                          !.removed = Of("removed"), !.modified = Of("modified"),
                          !.unmodified = Of("unmodified"), !.added = Of("added")]

\* A file of the cache folder: its text, whether it can be read, and the
\* collection and the (script contents, context name) it was saved for
\* (history; from is undefined once the file was damaged).
NoBy == [contents |-> <<>>, name |-> <<>>, set |-> FALSE]
CacheFile(text, from, by) == [text |-> text, readable |-> TRUE, from |-> from, by |-> by]

\* loadHashCollectionFileAsync(hashFilePath): "rejected" when readFile reports
\* an error, "uncaught" when JSON.parse throws inside the readFile callback
\* (the promise is never settled and the exception is not caught by anyone),
\* else "resolved" with the parsed value
LoadHashCollectionFile(folder, hashFilePath) ==
  IF hashFilePath \notin DOMAIN folder \/ ~folder[hashFilePath].readable
    THEN [how |-> "rejected", v |-> JUndef]
  ELSE LET r == JsonParse(folder[hashFilePath].text) IN
       IF r.ok THEN [how |-> "resolved", v |-> r.v] ELSE [how |-> "uncaught", v |-> JUndef]

\* saveHashCollectionFileAsync(hashFilePath, hashCollection)
SaveText_NoHash(hashCollection) ==
  JsonStringify([hashCollection EXCEPT
    !.m[KHashes].m = [f \in DOMAIN @ |-> JObj(KSize :> @[f].m[KSize])]])

SaveText(hashCollection) == JsonStringify(hashCollection)

SaveHashCollectionFile(folder, hashFilePath, hashCollection, by) ==
  (hashFilePath :> CacheFile(SaveText(hashCollection), hashCollection, by)) @@ folder

\* crypto.createHash("sha1").update(text).digest("hex"): a digest that tells
\* any two texts of the model apart stands for itself
Sha1Hex(text) == text

\* getHashCollectionFilename(scriptContents, contextName, hashType)
GetHashCollectionFilename_NameOnly(scriptContents, contextName, hashType) ==
  Sha1Hex(contextName \o hashType)

GetHashCollectionFilename(scriptContents, contextName, hashType) ==
  Sha1Hex(scriptContents \o contextName \o hashType)

----------------------------------------------------------------------------
(***************************************************************************)
(* getFileChangesAsync: src/src/lib/execRuntime.ts, lines 144-234          *)
(***************************************************************************)
MaxRuns == 2
MaxCalls == 3

\* the command file: its name and the contents it can have
MakfyFilename == <<"m">>
ScriptContents == {<<"s">>, <<"s", "x">>}

\* the context names and the glob pattern lists of the calls
ContextNames == {<<"x">>, <<>>}
Star == <<"*">>
PatternLists == {<<Star>>, <<<<" ">>, <<"a", " ">>>>}

\* baseContext.makfyFileContents || baseContext.makfyFilename
ScriptIdentity(r) == IF r.contents # <<>> THEN r.contents ELSE MakfyFilename

\* globPatterns.map((e) => e.trim()).filter((e) => e.length > 0)
CleanPatterns(globPatterns) ==
  SelectSeq([k \in 1..Len(globPatterns) |-> Trim(globPatterns[k])], LAMBDA e : Len(e) > 0)

\* the states of the working directory: the plain file has any contents, the
\* other two files are there or not
Trees ==
  {now \in [Paths -> FileContents \cup {NoFile}] :
     now[PathQ] \in {"x", NoFile} /\ now[PathCtor] \in {"x", NoFile}}

\* glob(pattern, { nodir: true }): "*" matches every file, a name matches itself
GlobOne(pattern, now) ==
  {f \in Paths : now[f] # NoFile /\ (pattern = Star \/ pattern = f)}

\* unrollGlobPatternsAsync(globPatterns), no pattern of the model is negative
UnrollGlobPatterns(globPatterns, now) ==
  UNION {GlobOne(globPatterns[k], now) : k \in 1..Len(globPatterns)}

\* A getFileChangesAsync call: pc is the await it is suspended at ("glob",
\* "load", "hash"), or "done" (returned res), "threw" (rejected; why: in "stat"
\* of a file or in the "delta") or "hung" (its promise can no longer settle);
\* memo: it returned a memoized result; old and new are oldHashCollection and
\* newHashCollection; oldBy and oldFrom are the by and from of the file that
\* was loaded (history).
NewCall(name, pats, key) ==
  [name |-> name, pats |-> pats, key |-> key, pc |-> "glob", files |-> {},
   old |-> JUndef, oldBy |-> NoBy, oldFrom |-> JUndef, new |-> JUndef,
   res |-> NoDelta, memo |-> FALSE, why |-> ""]

\* The run: st is "none", "running", "ok", "failed" or "crashed" (an uncaught
\* exception ended the process); results is baseContext.getFileChangesResults;
\* cache0 is the cache folder as the run found it and hashed the file names
\* for which the file set was hashed, in order (history); first is, by file
\* name, the result of the first call that completed (history); total counts
\* the calls of all the runs so far.
NoRun ==
  [st |-> "none", n |-> 0, contents |-> <<>>, results |-> <<>>, calls |-> <<>>,
   cache0 |-> <<>>, hashed |-> <<>>, first |-> <<>>, total |-> 0]

InitCache ==
  /\ tree = [f |-> [p \in Paths |-> IF p = PathA THEN "x" ELSE NoFile], edited |-> FALSE,
             damaged |-> FALSE]
  /\ cache = <<>>
  /\ run = NoRun
  /\ LimIdle
  /\ SchedIdle
  /\ OutIdle

CacheStep ==
  /\ UNCHANGED limVars
  /\ UNCHANGED schedVars
  /\ UNCHANGED outVars

\* once, at any moment, a file of the working directory is written, created
\* or deleted
Edit(now) ==
  /\ ~tree.edited
  /\ Cardinality({p \in Paths : tree.f[p] # now[p]}) = 1
  /\ tree' = [tree EXCEPT !.f = now, !.edited = TRUE]
  /\ UNCHANGED <<cache, run>>
  /\ CacheStep

\* once, after a successful run, a file of the cache folder is lost, made unreadable, cut
\* short, or replaced by other JSON
Damaged(file, how) ==
  CASE how = "unreadable" -> [file EXCEPT !.readable = FALSE, !.from = JUndef]
    [] how = "cut" -> [file EXCEPT !.text = SubSeq(@, 1, Len(@) \div 2), !.from = JUndef]
    [] how = "null" -> [file EXCEPT !.text = <<"n", "u", "l", "l">>, !.from = JUndef]
    [] how = "object" -> [file EXCEPT !.text = <<"{", "}">>, !.from = JUndef]

Damage(k, how) ==
  /\ run.st = "ok"
  /\ k \in DOMAIN cache
  /\ ~tree.damaged
  /\ cache' = IF how = "lost"
                THEN [j \in DOMAIN cache \ {k} |-> cache[j]]
                ELSE [cache EXCEPT ![k] = Damaged(@, how)]
  /\ tree' = [tree EXCEPT !.damaged = TRUE]
  /\ UNCHANGED run
  /\ CacheStep

\* the command is run with the command file as it is now
RunStart(contents) ==
  /\ run.st # "running"
  /\ run.n < MaxRuns
  /\ run' = [NoRun EXCEPT !.st = "running", !.n = run.n + 1, !.contents = contents,
                          !.cache0 = cache, !.total = run.total]
  /\ UNCHANGED <<tree, cache>>
  /\ CacheStep

\* getFileChangesAsync(contextName, globPatterns) up to its first await: the
\* memoized result is returned when there is one
GfcStart(name, pats) ==
  /\ run.st = "running"
  /\ run.total < MaxCalls
  /\ LET hashFilename == GetHashCollectionFilename(ScriptIdentity(run), name, Sha1)
         call == NewCall(name, CleanPatterns(pats), hashFilename)
     IN run' = [run EXCEPT !.total = @ + 1, !.calls = Append(@,
                  IF hashFilename \in DOMAIN run.results
                    THEN [call EXCEPT !.pc = "done", !.memo = TRUE,
                                      !.res = run.results[hashFilename].result]
                    ELSE call)]
  /\ UNCHANGED <<tree, cache>>
  /\ CacheStep

\* files = await unrollGlobPatternsAsync(globPatterns)
GfcGlob(i) ==
  /\ run.st = "running"
  /\ run.calls[i].pc = "glob"
  /\ run' = [run EXCEPT !.calls[i].pc = "load",
                        !.calls[i].files = UnrollGlobPatterns(run.calls[i].pats, tree.f)]
  /\ UNCHANGED <<tree, cache>>
  /\ CacheStep

\* try { oldHashCollection = await loadHashCollectionFileAsync(hashFilename) } catch {}
GfcLoad(i) ==
  /\ run.st = "running"
  /\ run.calls[i].pc = "load"
  /\ LET loaded == LoadHashCollectionFile(cache, run.calls[i].key) IN
     run' = IF loaded.how = "uncaught"
              THEN [run EXCEPT !.calls[i].pc = "hung", !.st = "crashed"]
              ELSE [run EXCEPT !.calls[i].pc = "hash",
                               !.calls[i].old = loaded.v,
                               !.calls[i].oldBy =
                                  IF loaded.how = "resolved"
                                    THEN cache[run.calls[i].key].by ELSE NoBy,
                               !.calls[i].oldFrom =
                                  IF loaded.how = "resolved"
                                    THEN cache[run.calls[i].key].from ELSE JUndef]
  /\ UNCHANGED <<tree, cache>>
  /\ CacheStep

\* the result is memoized under the cache file name
Memoize_Save(folder, r, call, delta, newHashCollection) ==
  SaveHashCollectionFile(folder, call.key, newHashCollection,
                         [contents |-> ScriptIdentity(r), name |-> call.name, set |-> TRUE])

Memoize(folder, r, call, delta, newHashCollection) == folder

\* newHashCollection = await generateHashCollectionAsync(files, "sha1", false);
\* delta = getHashCollectionDelta(...); getFileChangesResults[hashFilename] = cached
GfcHash(i) ==
  /\ run.st = "running"
  /\ run.calls[i].pc = "hash"
  /\ LET call == run.calls[i]
         newHashCollection == GenerateHashCollection(call.files, tree.f, Sha1, FALSE)
         delta == GetHashCollectionDelta(call.old, newHashCollection)
     IN IF GenerateThrows(call.files, tree.f)
          THEN /\ run' = [run EXCEPT !.calls[i].pc = "threw", !.calls[i].why = "stat"]
               /\ cache' = cache
        ELSE IF delta.threw
          THEN /\ run' = [run EXCEPT !.calls[i].pc = "threw", !.calls[i].why = "delta",
                                     !.calls[i].new = newHashCollection,
                                     !.hashed = Append(@, call.key)]
               /\ cache' = cache
        ELSE /\ run' = [run EXCEPT
                  !.calls[i].pc = "done", !.calls[i].res = delta,
                  !.calls[i].new = newHashCollection,
                  !.hashed = Append(@, call.key),
                  !.first = IF call.key \in DOMAIN @ THEN @ ELSE (call.key :> delta) @@ @,
                  !.results = (call.key :>
                     [result |-> delta, newHashCollection |-> newHashCollection,
                      oldHashCollection |-> call.old, name |-> call.name]) @@ @]
             /\ cache' = Memoize(cache, run, call, delta, newHashCollection)
  /\ UNCHANGED tree
  /\ CacheStep

\* the run ends in success: the new collection of every memoized result is persisted
RunSucceeds ==
  /\ run.st = "running"
  /\ \A i \in 1..Len(run.calls) : run.calls[i].pc \in {"done", "threw"}
  /\ cache' = [k \in DOMAIN cache \cup DOMAIN run.results |->
                 IF k \in DOMAIN run.results /\ (k \in DOMAIN cache => cache[k].readable)
                   THEN SaveHashCollectionFile(cache, k, run.results[k].newHashCollection,
                          [contents |-> ScriptIdentity(run), name |-> run.results[k].name,
                           set |-> TRUE])[k]
                   ELSE cache[k]]
  /\ run' = [run EXCEPT !.st = "ok"]
  /\ UNCHANGED tree
  /\ CacheStep

\* the run ends in failure (a step failed, a call of getFileChangesAsync threw)
RunFails ==
  /\ run.st = "running"
  /\ \A i \in 1..Len(run.calls) : run.calls[i].pc \in {"done", "threw"}
  /\ run' = [run EXCEPT !.st = "failed"]
  /\ UNCHANGED <<tree, cache>>
  /\ CacheStep

NextCache ==
  \/ \E now \in Trees : Edit(now)
  \/ \E k \in DOMAIN cache, how \in {"lost", "unreadable", "cut", "null", "object"} : Damage(k, how)
  \/ \E contents \in ScriptContents : RunStart(contents)
  \/ \E name \in ContextNames, pats \in PatternLists : GfcStart(name, pats)
  \/ \E i \in 1..Len(run.calls) : GfcGlob(i)
  \/ \E i \in 1..Len(run.calls) : GfcLoad(i)
  \/ \E i \in 1..Len(run.calls) : GfcHash(i)
  \/ RunSucceeds
  \/ RunFails

SpecCache == InitCache /\ [][NextCache]_vars

----------------------------------------------------------------------------
(***************************************************************************)
(* Properties of the change-detection cache                                *)
(***************************************************************************)
CallIds == 1..Len(run.calls)

\* call i has returned a result that it computed itself
Computed(i) == run.calls[i].pc = "done" /\ ~run.calls[i].memo

\* the paths of a hash collection
PathsOf(coll) == Keys(Get(coll, KHashes))

\* C12: a call that found no prior collection for its cache file returns the
\* clean-run delta: cleanRun and hasChanges are true, added holds every path of
\* the current collection, removed, modified and unmodified are empty.
CleanRunDelta ==
  \A i \in CallIds :
    (Computed(i) /\ run.calls[i].old = JUndef) =>
      LET res == run.calls[i].res IN
      /\ res.cleanRun /\ res.hasChanges
      /\ res.added = PathsOf(run.calls[i].new)
      /\ res.added = run.calls[i].files
      /\ res.removed = {} /\ res.modified = {} /\ res.unmodified = {}

\* C12 witness: a first call over two files has returned, both files added.
CleanRunDeltaWitness ==
  \E i \in CallIds :
    /\ Computed(i)
    /\ run.calls[i].key \notin DOMAIN run.cache0
    /\ run.calls[i].res.cleanRun
    /\ Cardinality(run.calls[i].res.added) = 2

\* the list the claim assigns to path e, from the entries the two collections hold
ClassOf(old, new, e) ==
  LET inOld == e \in PathsOf(old)
      inNew == e \in PathsOf(new)
  IN IF inOld /\ inNew
       THEN IF Get(old, KHashes).m[e] = Get(new, KHashes).m[e] THEN "unmodified" ELSE "modified"
     ELSE IF inOld THEN "removed" ELSE "added"

\* C13 (as claimed): a call that loaded a prior collection returns a delta in
\* which every path of the prior or the current collection is in exactly the
\* list of its class (unmodified, modified, removed, added), cleanRun is false
\* and hasChanges is true iff some path is not unmodified.
DeltaClassification ==
  \A i \in CallIds :
    (Computed(i) /\ run.calls[i].oldFrom # JUndef) =>
      LET call == run.calls[i]
          union == PathsOf(call.old) \cup PathsOf(call.new)
          Of(class) == {e \in union : ClassOf(call.old, call.new, e) = class}
      IN /\ call.res.unmodified = Of("unmodified")
         /\ call.res.modified = Of("modified")
         /\ call.res.removed = Of("removed")
         /\ call.res.added = Of("added")
         /\ ~call.res.cleanRun
         /\ call.res.hasChanges <=> (union # Of("unmodified"))

\* the file that call i found under its cache file name was missing, unreadable
\* or not the text of a saved collection
NoUsablePrior(i) ==
  LET k == run.calls[i].key IN
  \/ k \notin DOMAIN run.cache0
  \/ ~run.cache0[k].readable
  \/ run.cache0[k].from = JUndef

\* C14 (as claimed): a missing, unreadable or corrupt cache file never makes
\* the call fail: the call is not left hanging, the process is not ended, the
\* delta does not throw, and the result is the clean-run delta.
CorruptCacheIsCleanRun ==
  \A i \in CallIds :
    NoUsablePrior(i) =>
      /\ run.calls[i].pc # "hung"
      /\ run.st # "crashed"
      /\ ~(run.calls[i].pc = "threw" /\ run.calls[i].why = "delta")
      /\ Computed(i) => (run.calls[i].res.cleanRun /\ run.calls[i].res.added = run.calls[i].files)

HashedOnce ==
  /\ \A a, b \in 1..Len(run.hashed) : run.hashed[a] = run.hashed[b] => a = b
  /\ \A i, j \in CallIds :
       LET c1 == run.calls[i]
           c2 == run.calls[j]
       IN (c1.pc = "done" /\ c2.pc = "done" /\ c1.name = c2.name /\ c1.pats = c2.pats) =>
            c1.res = c2.res

\* C17: while a run has not ended in success, whatever calls of
\* getFileChangesAsync it has made, the cache folder holds exactly the files,
\* with exactly the texts, that the run found when it started.
CacheOnlyReadByCalls ==
  run.st \in {"running", "failed", "crashed"} => cache = run.cache0

\* C17 witness: a run has failed after a call that compared against a prior
\* collection and reported changes; the prior collection is still stored.
CacheOnlyReadByCallsWitness ==
  \E i \in CallIds :
    /\ run.st = "failed"
    /\ Computed(i)
    /\ run.calls[i].oldFrom # JUndef
    /\ run.calls[i].res.hasChanges
    /\ run.calls[i].key \in DOMAIN cache
    /\ cache[run.calls[i].key].from = run.calls[i].oldFrom

\* two hash collections hold the same data
SameCollection(c1, c2) ==
  /\ c1.t = "obj" /\ c2.t = "obj"
  /\ Get(c1, KHashType) = Get(c2, KHashType)
  /\ PathsOf(c1) = PathsOf(c2)
  /\ \A e \in PathsOf(c1) :
       /\ Get(Get(c1, KHashes).m[e], KSize) = Get(Get(c2, KHashes).m[e], KSize)
       /\ Get(Get(c1, KHashes).m[e], KHash) = Get(Get(c2, KHashes).m[e], KHash)

\* C18: loading a file that saveHashCollectionFileAsync wrote yields the
\* collection that was saved: same algorithm tag, same paths, and for every
\* path the same size and the same digest.
SaveLoadRoundTrip ==
  /\ \A i \in CallIds :
       run.calls[i].oldFrom # JUndef => SameCollection(run.calls[i].old, run.calls[i].oldFrom)
  /\ \A k \in DOMAIN cache :
       (cache[k].from # JUndef /\ cache[k].readable) =>
         LoadHashCollectionFile(cache, k).how = "resolved"

\* C18 witness: a call has loaded a saved collection that holds the path with
\* a double quote in its name, next to another path.
SaveLoadRoundTripWitness ==
  \E i \in CallIds :
    /\ run.calls[i].oldFrom # JUndef
    /\ PathQ \in PathsOf(run.calls[i].old)
    /\ PathA \in PathsOf(run.calls[i].old)

----------------------------------------------------------------------------
(***************************************************************************)
(* The output buffer: src/unnamed/part_014 (utils/OutputBuffer.ts, the     *)
(* version with writeString) and the promise of a shell step,              *)
(* execCommandStringAsync (execRuntime.ts:561-689).                        *)
(*                                                                         *)
(* A line prefix is one token, which no chunk of a child holds, so that a  *)
(* prefix in a stream is told from the data around it.  Colors are left    *)
(* out: every test of the code is made on the text with its colors         *)
(* stripped (chalk.stripColor).                                            *)
(***************************************************************************)
MaxProcs == 2   \* the shell steps that run at the same time
MaxData == 2    \* the 'data' events of the children, all together

ProcIds == 1..MaxProcs

Out == "out"
Err == "err"

\* formatting.ts:56-58 formatContextId(context): the id stack of the context
\* and two spaces; the contexts of two steps that run at once have two ids
LinePrefix(p) == << <<"#1">>, <<"#2">>, <<"#3">> >>[p]

PrefixTokens == {"#1", "#2", "#3"}

\* the chunks a child writes: an unterminated line, a terminated line, the
\* end of a line followed by the start of the next, a Windows line end
DataChunks == { <<"a">>, <<"a", "\n">>, <<"\n", "a">>, <<"\r", "\n">> }

RECURSIVE DataEvents(_, _)
DataEvents(ps, p) == IF p = 0 THEN 0 ELSE ps[p].data + DataEvents(ps, p - 1)

\* execRuntime.ts:573  chalk.bgBlue.bold.white(`> ${commandDisplay}`) + "\n"
EchoLine == <<">", "\n">>

\* execRuntime.ts:539-545 showAndGetError: `${err1} ${err2}`, with err1
\* `failed with code` or `killed by signal` and err2 the command
ErrorText(how) == IF how = "signal" THEN <<"k">> ELSE <<"f">>

\* execRuntime.ts:546 the line written to the buffer: the text and "\n"
ErrorLine_None(how) == <<>>

ErrorLine(how) == ErrorText(how) \o <<"\n">>

\* execRuntime.ts:547 new RunError(`${err1} ${err2}`, context), and
\* execRuntime.ts:604 new MakfyError(`shell could not be spawned - ...`, context)
RunError(how) == [cls |-> "RunError", text |-> ErrorText(how)]
SpawnError == [cls |-> "MakfyError", text |-> <<"s">>]
NoError == [cls |-> "none", text |-> <<>>]

\* execRuntime.ts:502-512 printProfileTime: `finished in ... > command` + "\n"
ProfileLine == <<"t", "\n">>

\* lines.join('\n')
RECURSIVE JoinLines(_)
JoinLines(lines) ==
  IF Len(lines) = 1 THEN lines[1]
  ELSE lines[1] \o <<"\n">> \o JoinLines(Tail(lines))

\* OutputBuffer.write / writeString: an empty chunk is not kept
Write(output, type, data) ==
  IF Len(data) > 0 THEN Append(output, [type |-> type, data |-> data]) ELSE output

\* flush(), the body of the loop over the lines of one chunk (part_014:138-149):
\* a line gets the prefix unless it is the last one and empty, or the first one
\* of a chunk that follows an unterminated chunk
PrefixedLines(lines, linePrefix, lastEndedInNewLine) ==
  [i \in 1..Len(lines) |->
     IF (i = Len(lines) /\ Len(lines[i]) <= 0) \/ (i = 1 /\ ~lastEndedInNewLine)
     THEN lines[i]
     ELSE linePrefix \o lines[i]]

\* flush(), the text written for one chunk (part_014:132-152)
ChunkText(data, linePrefix, lastEndedInNewLine) ==
  LET str == RemoveChars(data, {"\r"})
      lines == Split(str, "\n")
  IN JoinLines(PrefixedLines(lines, linePrefix, lastEndedInNewLine))

\* uncoloredText.length > 0 && uncoloredText[uncoloredText.length - 1] === '\n'
EndsInNewLine(text) == Len(text) > 0 /\ text[Len(text)] = "\n"

\* flush(), part_014:122-125: if (type !== lastType) { lastType = type;
\* lastEndedInNewLine = true; }
LastEnded_Keep(type, lastType, lastEndedInNewLine) == lastEndedInNewLine

LastEnded(type, lastType, lastEndedInNewLine) ==
  IF type # lastType THEN TRUE ELSE lastEndedInNewLine

\* flush(), the loop over the chunks from chunk k on (part_014:120-156); both
\* stream kinds have a socket, so the `continue` of line 128 is never taken
RECURSIVE FlushFrom(_, _, _, _, _, _)
FlushFrom(output, k, linePrefix, lastType, lastEndedInNewLine, socks) ==
  IF k > Len(output) THEN socks
  ELSE LET b == output[k]
           ended == LastEnded(b.type, lastType, lastEndedInNewLine)
           text == ChunkText(b.data, linePrefix, ended)
       IN FlushFrom(output, k + 1, linePrefix, b.type, EndsInNewLine(text),
                    [socks EXCEPT ![b.type] = @ \o text])

\* flush(): lastEndedInNewLine and lastType are locals of the call
\* (part_014:118-119), the buffer is emptied by the caller of this operator
Flush(output, linePrefix, socks) ==
  FlushFrom(output, 1, linePrefix, "undefined", TRUE, socks)

\* a buffer in which a chunk of one stream kind comes right after a chunk of
\* the other kind that did not end its line
Switches(output) ==
  \E k \in 2..Len(output) :
    /\ output[k].type # output[k - 1].type
    /\ ~EndsInNewLine(RemoveChars(output[k - 1].data, {"\r"}))

\* the shell strings of the steps: no marker, %, %%
ProcCommands == { <<"c">>, <<"%", "c">>, <<"%", "%", "c">> }

\* execRuntime.ts:572  if (silentLevel <= 1): the command line is echoed
Echoes_Loud(silentLevel) == silentLevel = 0

Echoes(silentLevel) == silentLevel <= 1

\* execRuntime.ts:592  stdio: ["pipe", silentLevel === 0 ? "pipe" : "ignore", "pipe"]:
\* is the stream of the child piped, so that childProc.stdout / stderr is set
Piped_One(silentLevel, type) == type = Err \/ silentLevel <= 1

Piped(silentLevel, type) == type = Err \/ silentLevel = 0

\* the two capture files of a step: `pwd > cwdTmpFilename && printenv > envTmpFilename`
\* is run by the shell after the command; the files the shell has made when it
\* ends: both after the whole line has run, none when the command itself ended
\* the shell (exit), failed or was killed, the first only when printenv failed
MadeFiles(how) ==
  IF how = "zero" THEN { {"cwd", "env"}, {} }
  ELSE IF how = "nonzero" THEN { {}, {"cwd"} }
  ELSE { {}, {"cwd", "env"} }

\* execRuntime.ts:514-531 cleanup: both files are unlinked, errors are ignored
Cleanup_KeepEnv(files) == files \cap {"env"}

Cleanup(files) == {}

\* One shell step: the promise of execCommandStringAsync and what its closures
\* hold.  History: echoed (the command line was written to the buffer), kept
\* and dropped (the chunks of the child that reached, or did not reach, a
\* 'data' handler), made (the capture files there were when the child closed),
\* switched (one flush of the buffer has written a chunk of one stream kind
\* right after an unterminated chunk of the other kind).
NoProc == [st |-> "none", command |-> <<>>, silent |-> 0, profile |-> FALSE,
           child |-> "none",
           output |-> <<>>, timer |-> FALSE, exitDone |-> FALSE,
           result |-> "pending", how |-> "none", data |-> 0,
           accepted |-> 0, written |-> 0,
           echoed |-> FALSE, kept |-> [out |-> 0, err |-> 0],
           dropped |-> [out |-> 0, err |-> 0], files |-> {}, made |-> {},
           switched |-> FALSE, error |-> NoError]

InitOutput ==
  /\ procs = [p \in ProcIds |-> NoProc]
  /\ sockets = [out |-> <<>>, err |-> <<>>]
  /\ LimIdle
  /\ SchedIdle
  /\ CacheIdle

OutStep ==
  /\ UNCHANGED limVars
  /\ UNCHANGED schedVars
  /\ UNCHANGED cacheVars

\* execRuntime.ts:561-610, the executor of the promise: the buffer is made,
\* the command line is echoed into it unless the command starts with %%, the
\* child is spawned, the handlers are set and the flush interval is started.
\* spawned = FALSE: the shell can not be started, 'error' will be emitted.
\* profile is context.options.profile, one option for the steps of a run.
ProcStart(p, command, profile, spawned) ==
  /\ procs[p].st = "none"
  /\ \A q \in ProcIds : q < p => procs[q].st # "none" /\ procs[q].profile = profile
  /\ LET silentLevel == SilentLevel(command)
         output == IF Echoes(silentLevel) THEN Write(<<>>, Out, EchoLine) ELSE <<>> IN
     procs' = [procs EXCEPT ![p] =
                 [@ EXCEPT !.st = "running", !.command = command,
                           !.silent = silentLevel,
                           !.profile = profile,
                           !.child = IF spawned THEN "alive" ELSE "failed",
                           !.output = output, !.accepted = Len(output),
                           !.echoed = output # <<>>,
                           !.timer = TRUE]]
  /\ UNCHANGED sockets
  /\ OutStep

\* The child writes a chunk to its stdout or stderr.  execRuntime.ts:671-687:
\* a stream that is piped has a 'data' handler, which writes the chunk to the
\* buffer; a stream that is not piped (line 592) goes nowhere.
ProcData(p, type, data) ==
  /\ procs[p].st = "running"
  /\ procs[p].child = "alive"
  /\ DataEvents(procs, MaxProcs) < MaxData
  /\ IF Piped(procs[p].silent, type)
       THEN LET output == Write(procs[p].output, type, data) IN
            procs' = [procs EXCEPT ![p] =
                        [@ EXCEPT !.output = output, !.data = @ + 1,
                                  !.kept[type] = @ + 1,
                                  !.accepted = @ + (Len(output) - Len(procs[p].output))]]
       ELSE procs' = [procs EXCEPT ![p] =
                        [@ EXCEPT !.data = @ + 1, !.dropped[type] = @ + 1]]
  /\ UNCHANGED sockets
  /\ OutStep

\* execRuntime.ts:607-610, the interval callback: flushAsync(), taken to write
\* what flush() of part_014:115-159 writes, in one step.  The 'error'
\* of a shell that can not be spawned is emitted before any timer is due.
ProcFlushTimer(p) ==
  /\ procs[p].timer
  /\ procs[p].child = "failed" => procs[p].exitDone
  /\ sockets' = Flush(procs[p].output, LinePrefix(p), sockets)
  /\ procs' = [procs EXCEPT ![p] =
                 [@ EXCEPT !.output = <<>>, !.written = @ + Len(procs[p].output),
                           !.switched = @ \/ Switches(procs[p].output)]]
  /\ OutStep

\* execRuntime.ts:627-669 and 612-618, the 'close' handler up to the await of
\* finishAsync: the error line is written for an exit code other than 0 or a
\* signal, the interval is cleared, the profile line is written, the buffer is
\* flushed.  For exit code 0 the two capture files are read first:
\* readFileSync throws when the shell has not made them, and the handler ends
\* there, before finishAsync.
ProcClose(p, how, made) ==
  /\ procs[p].st = "running"
  /\ procs[p].child = "alive"
  /\ ~procs[p].exitDone
  /\ made \in MadeFiles(how)
  /\ IF how = "zero" /\ made # {"cwd", "env"}
     THEN /\ procs' = [procs EXCEPT ![p] =
                         [@ EXCEPT !.st = "threw", !.child = "closed",
                                   !.exitDone = TRUE, !.how = how,
                                   !.files = made, !.made = made]]
          /\ UNCHANGED sockets
     ELSE
     LET shown == IF how = "zero" THEN procs[p].output
                  ELSE Write(procs[p].output, Err, ErrorLine(how))
         output == IF procs[p].profile /\ procs[p].silent < 2
                   THEN Write(shown, Out, ProfileLine)
                   ELSE shown
     IN /\ sockets' = Flush(output, LinePrefix(p), sockets)
        /\ procs' = [procs EXCEPT ![p] =
                       [@ EXCEPT !.st = "finishing", !.child = "closed",
                                 !.exitDone = TRUE, !.how = how, !.timer = FALSE,
                                 !.output = <<>>,
                                 !.switched = @ \/ Switches(output),
                                 !.error = IF how = "zero" THEN NoError ELSE RunError(how),
                                 !.files = made, !.made = made,
                                 !.accepted = @ + (Len(output) - Len(procs[p].output)),
                                 !.written = @ + Len(output)]]
  /\ OutStep

\* execRuntime.ts:619-624, finishAsync after the await: cleanup, then the
\* promise is rejected with the error or resolved
ProcFinish(p) ==
  /\ procs[p].st = "finishing"
  /\ procs' = [procs EXCEPT ![p] =
                 [@ EXCEPT !.st = "settled",
                           !.files = Cleanup(procs[p].files),
                           !.result = IF procs[p].error = NoError THEN "resolved"
                                      ELSE "rejected"]]
  /\ UNCHANGED sockets
  /\ OutStep

\* execRuntime.ts:597-605, the 'error' handler: cleanup and reject
ProcError(p) ==
  /\ procs[p].st = "running"
  /\ procs[p].child = "failed"
  /\ ~procs[p].exitDone
  /\ procs' = [procs EXCEPT ![p] =
                 [@ EXCEPT !.st = "settled", !.exitDone = TRUE, !.how = "error",
                           !.error = SpawnError,
                           !.files = Cleanup(procs[p].files),
                           !.result = "rejected"]]
  /\ UNCHANGED sockets
  /\ OutStep

NextOutput ==
  \/ \E p \in ProcIds, command \in ProcCommands, profile \in BOOLEAN, spawned \in BOOLEAN :
       ProcStart(p, command, profile, spawned)
  \/ \E p \in ProcIds, type \in {Out, Err}, data \in DataChunks : ProcData(p, type, data)
  \/ \E p \in ProcIds : ProcFlushTimer(p)
  \/ \E p \in ProcIds, how \in {"zero", "nonzero", "signal"} :
       \E made \in MadeFiles(how) : ProcClose(p, how, made)
  \/ \E p \in ProcIds : ProcFinish(p)
  \/ \E p \in ProcIds : ProcError(p)

SpecOutput == InitOutput /\ [][NextOutput]_vars

----------------------------------------------------------------------------
(***************************************************************************)
(* Properties of the output                                                *)
(***************************************************************************)
Streams == {Out, Err}

\* C19: whatever the writes and flushes of the steps' buffers, a line prefix
\* in process.stdout or process.stderr stands at the start of a line: it is
\* the first thing written to the stream or it follows a line end.
PrefixOnlyAtLineStart ==
  \A s \in Streams : \A i \in 1..Len(sockets[s]) :
    sockets[s][i] \in PrefixTokens => (i = 1 \/ sockets[s][i - 1] = "\n")

\* C20: when the promise of a shell step is settled, its buffer is empty and
\* every chunk the buffer accepted has been written to the streams.
SettledMeansFlushed ==
  \A p \in ProcIds :
    procs[p].result # "pending" =>
      procs[p].output = <<>> /\ procs[p].written = procs[p].accepted

\* the number of leading markers of a shell string
Markers(command) ==
  IF Len(command) >= 2 /\ command[1] = "%" /\ command[2] = "%" THEN 2
  ELSE IF Len(command) >= 1 /\ command[1] = "%" THEN 1
  ELSE 0

Started(p) == procs[p].st # "none"

Has(text, c) == \E i \in 1..Len(text) : text[i] = c

\* C21 (as claimed): with no marker the command line is echoed and the
\* standard output of the child is captured; with one marker the line is not
\* echoed and standard output is captured; with two markers the line is not
\* echoed and standard output is not captured; error output is captured at
\* every level.
VerbosityAsSpecified ==
  \A p \in ProcIds :
    Started(p) =>
      LET m == Markers(procs[p].command) IN
      /\ procs[p].echoed <=> m = 0
      /\ m <= 1 => procs[p].dropped.out = 0
      /\ m = 2 => procs[p].kept.out = 0
      /\ procs[p].dropped.err = 0

\* C21 (amended): with no marker the command line is echoed and the standard
\* output of the child is captured; with one marker the line is echoed and
\* standard output is not captured; with two markers the line is not echoed
\* and standard output is not captured; error output is captured at every level.
VerbosityLevels ==
  \A p \in ProcIds :
    Started(p) =>
      LET m == Markers(procs[p].command) IN
      /\ procs[p].echoed <=> m <= 1
      /\ m = 0 => procs[p].dropped.out = 0
      /\ m >= 1 => procs[p].kept.out = 0
      /\ procs[p].dropped.err = 0

\* C21 witness: a step with one marker has echoed its command line, a chunk of
\* the child's standard output went nowhere and a chunk of its error output
\* was captured.
VerbosityLevelsWitness ==
  \E p \in ProcIds :
    /\ Markers(procs[p].command) = 1
    /\ procs[p].echoed
    /\ procs[p].dropped.out = 1
    /\ procs[p].kept.err = 1

\* C22: what reaches process.stdout and process.stderr.  When every step has a
\* marker nothing that a child wrote to its standard output is on
\* process.stdout; when every step has two markers no command line is on it
\* either; the command line of a step with at most one marker is on
\* process.stdout once the step has settled after its child has closed; the
\* error output of a child is never dropped, and it is on process.stderr once
\* the step has resolved.
VerbosityShown ==
  /\ (\A p \in ProcIds : Started(p) => Markers(procs[p].command) >= 1)
       => ~Has(sockets.out, "a")
  /\ (\A p \in ProcIds : Started(p) => Markers(procs[p].command) = 2)
       => ~Has(sockets.out, ">")
  /\ \A p \in ProcIds :
       /\ (procs[p].result # "pending" /\ procs[p].how # "error"
             /\ Markers(procs[p].command) <= 1) => Has(sockets.out, ">")
       /\ procs[p].dropped.err = 0
       /\ (procs[p].result = "resolved" /\ procs[p].kept.err > 0) => sockets.err # <<>>

\* C22 witness: a step with one marker has resolved; its command line is on
\* process.stdout, the chunk its child wrote to standard output is not, and
\* the chunk its child wrote to error output is on process.stderr.
VerbosityShownWitness ==
  \E p \in ProcIds :
    /\ Markers(procs[p].command) = 1
    /\ procs[p].result = "resolved"
    /\ procs[p].dropped.out = 1
    /\ procs[p].kept.err = 1
    /\ Has(sockets.out, ">") /\ ~Has(sockets.out, "a")
    /\ Has(sockets.err, "a")

\* C23: once the promise of a shell step is settled neither of its two capture
\* files exists, whether the step succeeded, exited with another code than 0,
\* was killed by a signal or could not be spawned.
TempFilesCleaned ==
  \A p \in ProcIds : procs[p].result # "pending" => procs[p].files = {}

\* C23 witness: a step whose shell was killed by a signal after it had made
\* both files has been rejected, and the files are gone.
TempFilesCleanedWitness ==
  \E p \in ProcIds :
    /\ procs[p].result = "rejected"
    /\ procs[p].how = "signal"
    /\ procs[p].made = {"cwd", "env"}
    /\ procs[p].files = {}

\* flush() run on the first k chunks of a buffer, on empty streams: what the
\* loop has written when it is done with chunk k
FlushedUpTo(output, k, linePrefix) ==
  Flush(SubSeq(output, 1, k), linePrefix, [out |-> <<>>, err |-> <<>>])

\* the text that flush() writes for chunk k of a buffer
WrittenFor(output, k, linePrefix) ==
  LET type == output[k].type
      before == FlushedUpTo(output, k - 1, linePrefix)[type]
      after == FlushedUpTo(output, k, linePrefix)[type]
  IN SubSeq(after, Len(before) + 1, Len(after))

\* C31: in every buffer that a step holds, a chunk whose stream kind differs
\* from that of the chunk before it is written by flush() with the line prefix
\* in front of its first line, whether the chunk before it ended its line or
\* not (a chunk that is empty once its carriage returns are removed has no
\* text to put a prefix to: nothing is written for it).
KindSwitchResets ==
  \A p \in ProcIds :
    LET output == procs[p].output IN
    \A k \in 2..Len(output) :
      (/\ output[k].type # output[k - 1].type
       /\ RemoveChars(output[k].data, {"\r"}) # <<>>)
      => LET text == WrittenFor(output, k, LinePrefix(p))
         IN /\ Len(text) >= Len(LinePrefix(p)) + 1
            /\ SubSeq(text, 1, Len(LinePrefix(p))) = LinePrefix(p)
            /\ text[Len(LinePrefix(p)) + 1] \notin PrefixTokens

\* C31 witness: a step has flushed, in one flush, a chunk of its child's
\* standard output right after an unterminated chunk of its error output, and
\* both streams hold the prefix and the text.
KindSwitchResetsWitness ==
  \E p \in ProcIds :
    /\ procs[p].switched
    /\ procs[p].kept.out = 1 /\ procs[p].kept.err = 1
    /\ Has(sockets.out, "a") /\ Has(sockets.err, "a")

\* text t stands in text s, in one piece
Contains(s, t) ==
  \E i \in 0..(Len(s) - Len(t)) : SubSeq(s, i + 1, i + Len(t)) = t

\* C32: a step whose promise is rejected after its shell exited with a code
\* other than 0, or was killed by a signal, is rejected with a RunError; the
\* text of the error names the exit code or the signal as it happened, and the
\* line with that text is on process.stderr by then.  A step whose shell could
\* not be spawned is rejected with a MakfyError.
FailureShownThenThrown ==
  \A p \in ProcIds :
    procs[p].result = "rejected" =>
      IF procs[p].how \in {"nonzero", "signal"}
        THEN /\ procs[p].error.cls = "RunError"
             /\ procs[p].error.text = (IF procs[p].how = "signal" THEN <<"k">> ELSE <<"f">>)
             /\ Contains(sockets.err, procs[p].error.text \o <<"\n">>)
        ELSE /\ procs[p].how = "error"
             /\ procs[p].error.cls = "MakfyError"

\* C32 witness: one step has been rejected after a signal and another because
\* its shell could not be spawned.
FailureShownThenThrownWitness ==
  \E p, q \in ProcIds :
    /\ procs[p].result = "rejected" /\ procs[p].how = "signal"
    /\ procs[q].result = "rejected" /\ procs[q].how = "error"

\* C37 (as claimed): once the promise of a shell step is settled, by whatever
\* path, its flush timer is cleared: none is left running.
TimerCleared ==
  \A p \in ProcIds : procs[p].result # "pending" => ~procs[p].timer

\* C38 (as claimed): when the child of a shell step has closed, the promise
\* of the step is settled as soon as the 'close' handler and finishAsync are
\* done: it does not stay pending with nothing left to settle it, also when
\* the child closed with exit code 0 without having made the capture files.
ClosedSettles ==
  \A p \in ProcIds :
    (procs[p].child = "closed" /\ procs[p].st # "finishing") =>
      procs[p].result # "pending"

\* C39 (as claimed): a call of getFileChangesAsync that is made after a call
\* with the same context name has completed in the same run returns the
\* result of the first call that completed for that name, whatever its own
\* patterns and whatever has become of the files.
MemoReturnsFirst ==
  \A j \in CallIds :
    (run.calls[j].pc = "done" /\ run.calls[j].memo) =>
      run.calls[j].res = run.first[run.calls[j].key]

\* C40: for a limiter created with n >= 1 the counter of the busy slots stays
\* within 0..n, and units wait in the queue only while it is n; in the step
\* in which a unit completes while units wait, the unit at the head of the
\* queue leaves it and is started, and the counter is n again.
LimiterBookkeeping ==
  /\ [](limState = "ready" =>
         /\ 0 <= activeCount /\ activeCount <= concurrency
         /\ queue # <<>> => activeCount = concurrency)
  /\ [][((\E u \in UnitIds : units[u].st = "running" /\ units'[u].st = "done")
           /\ queue # <<>>)
         => /\ queue' = Tail(queue)
            /\ units[Head(queue)].st = "queued"
            /\ units'[Head(queue)].st = "running"
            /\ activeCount' = concurrency]_vars

\* C40 witness: with two slots, a unit that waited has been started when a
\* unit completed, another unit still waits, and both slots are counted busy.
LimiterBookkeepingWitness ==
  /\ limState = "ready"
  /\ concurrency = 2
  /\ activeCount = 2
  /\ queue # <<>>
  /\ \E u \in UnitIds : units[u].qpos > 0 /\ units[u].st = "running"
  /\ \E v \in UnitIds : units[v].st = "done"

====
